---- MODULE Spec2Model ----
(***************************************************************************)
(* Model of the acl2 access-control engine (lib/acl.js) running on the     *)
(* in-memory backend (lib/memory-backend.js).                              *)
(*                                                                         *)
(* Strings that the code concatenates or matches character by character    *)
(* (resource names and bucket names) are sequences of one-character        *)
(* strings, so that "allows_" + resource, the replace(/^allows_/, "") of   *)
(* keyFromAllowsBucket and the new RegExp("^" + b + "$") of                *)
(* MemoryBackend.union are computed, not assumed.  User ids, role names    *)
(* and permission tokens are only ever compared for equality and are       *)
(* plain strings.                                                          *)
(*                                                                         *)
(* A JavaScript array stored at a (bucket, key) is represented by the set  *)
(* of its elements: every operation the engine and the memory backend      *)
(* apply to such an array (lodash union / difference / uniq / intersection,*)
(* indexOf, filter, length === 0, for..of feeding one of the former) gives *)
(* a result whose element set depends only on the element sets of its      *)
(* operands.  Argument arrays of the mutations are sequences, since the    *)
(* code queues one storage operation per element, in order.  A string      *)
(* argument is the one-element array makeArray turns it into.              *)
(*                                                                         *)
(* Spec runs the public mutations one at a time and keeps the last call    *)
(* and the store it found; SpecStore does the same without that record;    *)
(* SpecAdd runs the add-type mutations only, also on resources named by    *)
(* overlapping patterns; SpecBatch interleaves the flat calls started by   *)
(* one allow(permissionsArray); SpecMiddleware serves one request through  *)
(* the Express middleware.                                                 *)
(***************************************************************************)
EXTENDS Integers, Sequences, FiniteSets, TLC

VARIABLES
    buckets,   \* MemoryBackend._buckets
    prev,      \* _buckets as it was when the last public call started
    last,      \* the last completed public mutation and its arguments
    nops,      \* number of completed public mutations
    history,   \* whether prev and last are kept
    batch,     \* the allow(permissionsArray) call in progress, if any
    calls,     \* the public calls in progress (under SpecBatch the flat allow
               \* calls _allowEx started), each with its position
    mw         \* the request the middleware is handling, and its calls of next

vars == <<buckets, prev, last, nops, history, batch, calls, mw>>

----------------------------------------------------------------------------
(* Bounds and the universes the inputs are drawn from *)

MaxOps == 2

Users == {"u1", "u2"}
Roles == {"r1", "r2", "r3"}
ResA == <<"a">>
ResDot == <<".">>
Resources == {ResA, ResDot}
\* a longer name and two patterns that both match it
ResAB == <<"a", "b">>
ResADot == <<"a", ".">>
ResDotDot == <<".", ".">>
Star == "*"
Permissions == {"view", "edit", Star}

\* argument arrays of the public calls
UserRoleArgs == {<<"r1">>, <<"r2">>, <<"r3">>, <<"r1", "r2">>}
ParentArgs == {<<"r2">>, <<"r3">>, <<"r2", "r3">>}
AllowRoleArgs == {<<"r1">>, <<"r3">>, <<"r1", "r2">>}
ResourceArgs == {<<ResA>>, <<ResDot>>, <<ResA, ResDot>>}
PermissionArgs == {<<"view">>, <<Star>>, <<"view", "edit">>}
RevokeArgs == {<<"view">>, <<Star>>}

Range(s) == {s[i] : i \in 1..Len(s)}

----------------------------------------------------------------------------
(* Bucket names: Acl options.buckets and the allows_<resource> buckets *)

BucketMeta == <<"m", "e", "t", "a">>
BucketParents == <<"p", "a", "r", "e", "n", "t", "s">>
BucketResources == <<"r", "e", "s", "o", "u", "r", "c", "e", "s">>
BucketRoles == <<"r", "o", "l", "e", "s">>
BucketUsers == <<"u", "s", "e", "r", "s">>
AllowsPrefix == <<"a", "l", "l", "o", "w", "s", "_">>

allowsBucket(role) == AllowsPrefix \o role

keyFromAllowsBucket(str) ==
    IF Len(str) >= Len(AllowsPrefix) /\ SubSeq(str, 1, Len(AllowsPrefix)) = AllowsPrefix
    THEN SubSeq(str, Len(AllowsPrefix) + 1, Len(str))
    ELSE str

----------------------------------------------------------------------------
(* MemoryBackend *)

EmptyMap == [k \in {} |-> {}]

\* A store b is _buckets: b.data maps each existing bucket to its key ->
\* values object, and b.patterns is what union can observe of the property
\* order of _buckets: the existing buckets whose name holds a "." in the
\* order they were created.  (A bucket whose name has no "." matches, as a
\* regular expression, no name but its own.)
NewBackend == [data |-> EmptyMap, patterns |-> <<>>]

\* new RegExp("^" + b + "$").test(bucket), for names over letters, "_" and
\* ".": every character but "." stands for itself, "." for any character.
RegExpTest(b, bucket) ==
    /\ Len(b) = Len(bucket)
    /\ \A i \in 1..Len(b) : b[i] = "." \/ b[i] = bucket[i]

IsPattern(bucket) == \E i \in 1..Len(bucket) : bucket[i] = "."

begin == <<>>

get(b, bucket, key) ==
    IF bucket \in DOMAIN b.data
    THEN IF key \in DOMAIN b.data[bucket] THEN b.data[bucket][key] ELSE {}
    ELSE {}

KeysUnion(m, keys) == UNION {m[k] : k \in keys \cap DOMAIN m}

unions(b, bucketList, keys) ==
    [bucket \in bucketList |->
        IF bucket \in DOMAIN b.data THEN KeysUnion(b.data[bucket], keys) ELSE {}]

\* Object.keys(_buckets).some(...): the first bucket, in creation order,
\* whose name matches the missing one
MatchBucket(b, bucket) ==
    LET hits == {i \in 1..Len(b.patterns) : RegExpTest(b.patterns[i], bucket)}
    IN  IF bucket \notin DOMAIN b.data /\ hits # {}
        THEN b.patterns[CHOOSE i \in hits : \A j \in hits : i <= j]
        ELSE bucket

union(b, bucket, keys) ==
    LET bk == MatchBucket(b, bucket)
    IN  IF bk \in DOMAIN b.data THEN KeysUnion(b.data[bk], keys) ELSE {}

add(transaction, bucket, key, values) ==
    Append(transaction, [op |-> "add", bucket |-> bucket, keys |-> {key}, values |-> values])

del(transaction, bucket, keys) ==
    Append(transaction, [op |-> "del", bucket |-> bucket, keys |-> keys, values |-> {}])

remove(transaction, bucket, key, values) ==
    Append(transaction, [op |-> "remove", bucket |-> bucket, keys |-> {key}, values |-> values])

Put(m, key, values) ==
    [k \in DOMAIN m \cup {key} |-> IF k = key THEN values ELSE m[k]]

\* _buckets[bucket] = m, a new property when the bucket did not exist
PutBucket(b, bucket, m) ==
    [data |-> Put(b.data, bucket, m),
     patterns |-> IF bucket \notin DOMAIN b.data /\ IsPattern(bucket)
                  THEN Append(b.patterns, bucket)
                  ELSE b.patterns]

\* add that stores, for a key that exists, only the values it did not hold
RunAddDifference(b, bucket, key, values) ==
    LET m == IF bucket \in DOMAIN b.data THEN b.data[bucket] ELSE EmptyMap
    IN  PutBucket(b, bucket,
            IF key \notin DOMAIN m
            THEN Put(m, key, values)
            ELSE Put(m, key, values \ m[key]))

\* add that replaces the stored value instead of merging into it
RunAddOverwrite(b, bucket, key, values) ==
    LET m == IF bucket \in DOMAIN b.data THEN b.data[bucket] ELSE EmptyMap
    IN  PutBucket(b, bucket, Put(m, key, values))

\* the closure pushed by add
RunAdd(b, bucket, key, values) ==
    LET m == IF bucket \in DOMAIN b.data THEN b.data[bucket] ELSE EmptyMap
    IN  PutBucket(b, bucket,
            IF key \notin DOMAIN m
            THEN Put(m, key, values)
            ELSE Put(m, key, values \cup m[key]))

\* the closure pushed by del
RunDel(b, bucket, keys) ==
    IF bucket \in DOMAIN b.data
    THEN PutBucket(b, bucket, [k \in DOMAIN b.data[bucket] \ keys |-> b.data[bucket][k]])
    ELSE b

\* remove that empties the key whatever values it is given
RunRemoveAll(b, bucket, key, values) ==
    IF bucket \in DOMAIN b.data /\ key \in DOMAIN b.data[bucket]
    THEN PutBucket(b, bucket, Put(b.data[bucket], key, {}))
    ELSE b

\* the closure pushed by remove
RunRemove(b, bucket, key, values) ==
    IF bucket \in DOMAIN b.data /\ key \in DOMAIN b.data[bucket]
    THEN PutBucket(b, bucket, Put(b.data[bucket], key, b.data[bucket][key] \ values))
    ELSE b

Run(b, e) ==
    CASE e.op = "add" -> RunAdd(b, e.bucket, CHOOSE k \in e.keys : TRUE, e.values)
      [] e.op = "del" -> RunDel(b, e.bucket, e.keys)
      [] e.op = "remove" -> RunRemove(b, e.bucket, CHOOSE k \in e.keys : TRUE, e.values)

RECURSIVE end(_, _)
end(b, transaction) ==
    IF transaction = <<>>
    THEN b
    ELSE end(Run(b, Head(transaction)), Tail(transaction))

----------------------------------------------------------------------------
(* Acl: hierarchy resolver and decision engine, read from a store b *)

userRoles(b, userId) == get(b, BucketUsers, userId)

roleUsers(b, roleName) == get(b, BucketRoles, roleName)

\* the roles themselves returned among their parents
_rolesParentsAndSelf(b, roles) == roles \cup union(b, BucketParents, roles)

\* the parents read from the bucket of the users
_rolesParentsWrongBucket(b, roles) == union(b, BucketUsers, roles)

_rolesParents(b, roles) == union(b, BucketParents, roles)

\* closure that stops after one parent level
_allRolesOneLevel(b, roleNames) == roleNames \cup _rolesParents(b, roleNames)

RECURSIVE _allRoles(_, _)
_allRoles(b, roleNames) ==
    LET parents == _rolesParents(b, roleNames)
    IN  IF parents # {}
        THEN roleNames \cup _allRoles(b, parents)
        ELSE roleNames

_allUserRoles(b, userId) ==
    LET roles == userRoles(b, userId)
    IN  IF roles # {} THEN _allRoles(b, roles) ELSE {}

RECURSIVE _resourcePermissions(_, _, _)
_resourcePermissions(b, roles, resource) ==
    IF roles = {}
    THEN {}
    ELSE LET resourcePermissions == union(b, allowsBucket(resource), roles)
             parents == _rolesParents(b, roles)
         IN  IF parents # {}
             THEN resourcePermissions \cup _resourcePermissions(b, parents, resource)
             ELSE resourcePermissions

\* permission check that wants a requested permission to be found at some
\* level, the way the permissions filter of permittedResources does
RECURSIVE _checkPermissionsSomeFound(_, _, _, _)
_checkPermissionsSomeFound(b, roles, resource, permissions) ==
    LET resourcePermissions == union(b, allowsBucket(resource), roles)
        remaining == {p \in permissions : p \notin resourcePermissions}
        parents == union(b, BucketParents, roles)
    IN  IF Star \in resourcePermissions
        THEN TRUE
        ELSE IF remaining = {} /\ permissions \cap resourcePermissions # {}
             THEN TRUE
             ELSE IF parents # {}
                  THEN _checkPermissionsSomeFound(b, parents, resource, remaining)
                  ELSE FALSE

\* permission check without the wildcard short-circuit
RECURSIVE _checkPermissionsNoWildcard(_, _, _, _)
_checkPermissionsNoWildcard(b, roles, resource, permissions) ==
    LET resourcePermissions == union(b, allowsBucket(resource), roles)
        remaining == {p \in permissions : p \notin resourcePermissions}
        parents == union(b, BucketParents, roles)
    IN  IF remaining = {}
        THEN TRUE
        ELSE IF parents # {}
             THEN _checkPermissionsNoWildcard(b, parents, resource, remaining)
             ELSE FALSE

RECURSIVE _checkPermissions(_, _, _, _)
_checkPermissions(b, roles, resource, permissions) ==
    LET resourcePermissions == union(b, allowsBucket(resource), roles)
        remaining == {p \in permissions : p \notin resourcePermissions}
        parents == union(b, BucketParents, roles)
    IN  IF Star \in resourcePermissions
        THEN TRUE
        ELSE IF remaining = {}
             THEN TRUE
             ELSE IF parents # {}
                  THEN _checkPermissions(b, parents, resource, remaining)
                  ELSE FALSE

areAnyRolesAllowed(b, roles, resource, permissions) ==
    IF roles = {}
    THEN FALSE
    ELSE _checkPermissions(b, roles, resource, permissions)

isAllowed(b, userId, resource, permissions) ==
    LET roles == get(b, BucketUsers, userId)
    IN  IF roles # {}
        THEN areAnyRolesAllowed(b, roles, resource, permissions)
        ELSE FALSE

\* `this.backend.unions` of allowedPermissions: the memory backend has it
BackendHasUnions == TRUE

\* lines 351-360 of allowedPermissions: one _resourcePermissions per resource
naiveAllowedPermissions(b, userId, resources) ==
    LET roles == userRoles(b, userId)
    IN  [resource \in resources |-> _resourcePermissions(b, roles, resource)]

optimizedAllowedPermissions(b, userId, resources) ==
    LET roles == _allUserRoles(b, userId)
        bucketList == {allowsBucket(r) : r \in resources}
        response == IF roles = {}
                    THEN [bucket \in bucketList |-> {}]
                    ELSE unions(b, bucketList, roles)
        keys == {keyFromAllowsBucket(bucket) : bucket \in DOMAIN response}
    IN  [k \in keys |->
            response[CHOOSE bucket \in DOMAIN response : keyFromAllowsBucket(bucket) = k]]

allowedPermissions(b, userId, resources) ==
    IF BackendHasUnions
    THEN optimizedAllowedPermissions(b, userId, resources)
    ELSE naiveAllowedPermissions(b, userId, resources)

----------------------------------------------------------------------------
(* Acl: public mutations, each one begin ... end on the store b *)

AddEntry(bucket, key, values) ==
    [op |-> "add", bucket |-> bucket, keys |-> {key}, values |-> values]

DelEntry(bucket, keys) ==
    [op |-> "del", bucket |-> bucket, keys |-> keys, values |-> {}]

RemoveEntry(bucket, key, values) ==
    [op |-> "remove", bucket |-> bucket, keys |-> {key}, values |-> values]

\* the elements of an array read from the store, in some iteration order
RECURSIVE Enum(_)
Enum(S) ==
    IF S = {}
    THEN <<>>
    ELSE LET x == CHOOSE y \in S : TRUE IN <<x>> \o Enum(S \ {x})

RECURSIVE Flat(_)
Flat(ss) == IF ss = <<>> THEN <<>> ELSE Head(ss) \o Flat(Tail(ss))

\* _rolesResources that reads the resources of the given roles only
_rolesResourcesDirect(b, roles) ==
    LET given == Enum(roles)
    IN  Flat([i \in 1..Len(given) |-> Enum(get(b, BucketResources, given[i]))])

\* the array _rolesResources returns: the resources arrays of the roles of
\* the closure, concatenated
_rolesResources(b, roles) ==
    LET allRoles == Enum(_allRoles(b, roles))
    IN  Flat([i \in 1..Len(allRoles) |-> Enum(get(b, BucketResources, allRoles[i]))])

\* resources.map(...) with a permissions filter that wants every asked
\* permission to be held
RECURSIVE FilterAll(_, _, _, _)
FilterAll(b, roles, permissions, resources) ==
    IF resources = <<>>
    THEN <<>>
    ELSE LET p == _resourcePermissions(b, roles, Head(resources))
             rest == FilterAll(b, roles, permissions, Tail(resources))
         IN  IF permissions \subseteq p /\ permissions # {}
             THEN <<Head(resources)>> \o rest
             ELSE rest

\* resources.map(...) of permittedResources with a permissions filter: one
\* result.push(resource) per element of resources that passes
RECURSIVE FilterAny(_, _, _, _)
FilterAny(b, roles, permissions, resources) ==
    IF resources = <<>>
    THEN <<>>
    ELSE LET p == _resourcePermissions(b, roles, Head(resources))
             rest == FilterAny(b, roles, permissions, Tail(resources))
         IN  IF permissions \cap p # {}
             THEN <<Head(resources)>> \o rest
             ELSE rest

\* filtered: a permissions argument was given; the result is then an array
\* (a sequence), otherwise an object keyed by resource (a function)
permittedResources(b, roles, filtered, permissions) ==
    LET resources == _rolesResources(b, roles)
    IN  IF filtered
        THEN FilterAny(b, roles, permissions, resources)
        ELSE [resource \in Range(resources) |-> _resourcePermissions(b, roles, resource)]

whatResources(b, roles, filtered, permissions) ==
    permittedResources(b, roles, filtered, permissions)

\* Each public mutation is given twice: what it queues between begin and
\* end (from what it read of the store b, if it reads), and the whole call
\* run to completion.

\* the roles, not the user, registered in the metadata
addUserRolesRegisterRoles(userId, roles) ==
    LET t1 == add(begin, BucketMeta, "roles", Range(roles))
        t2 == add(t1, BucketUsers, userId, Range(roles))
    IN  t2 \o [i \in 1..Len(roles) |-> AddEntry(BucketRoles, roles[i], {userId})]

addUserRolesTransaction(userId, roles) ==
    LET t1 == add(begin, BucketMeta, "users", {userId})
        t2 == add(t1, BucketUsers, userId, Range(roles))
    IN  t2 \o [i \in 1..Len(roles) |-> AddEntry(BucketRoles, roles[i], {userId})]

addUserRoles(b, userId, roles) ==
    end(b, addUserRolesTransaction(userId, roles))

removeUserRolesTransaction(userId, roles) ==
    LET t1 == remove(begin, BucketUsers, userId, Range(roles))
    IN  t1 \o [i \in 1..Len(roles) |-> RemoveEntry(BucketRoles, roles[i], {userId})]

removeUserRoles(b, userId, roles) ==
    end(b, removeUserRolesTransaction(userId, roles))

\* the parents added, the role not registered in the metadata
addRoleParentsNoRegister(role, parents) ==
    add(begin, BucketParents, role, Range(parents))

\* the parents of the role replaced: the key deleted, then the parents added
addRoleParentsReplace(role, parents) ==
    LET t1 == add(begin, BucketMeta, "roles", {role})
        t2 == del(t1, BucketParents, {role})
    IN  add(t2, BucketParents, role, Range(parents))

addRoleParentsTransaction(role, parents) ==
    LET t1 == add(begin, BucketMeta, "roles", {role})
    IN  add(t1, BucketParents, role, Range(parents))

addRoleParents(b, role, parents) ==
    end(b, addRoleParentsTransaction(role, parents))

\* removeRoleParents that drops every parent whatever it is given
removeRoleParentsAll(b, role, explicit, parents) ==
    end(b, del(begin, BucketParents, {role}))

\* explicit: the call passed a parents argument
removeRoleParents(b, role, explicit, parents) ==
    LET t1 == IF explicit
              THEN remove(begin, BucketParents, role, Range(parents))
              ELSE del(begin, BucketParents, {role})
    IN  end(b, t1)

\* removeRole that leaves the allows_<resource> buckets alone
removeRoleKeepGrants(b, role) ==
    LET t2 == del(begin, BucketResources, {role})
        t3 == del(t2, BucketParents, {role})
        t4 == del(t3, BucketRoles, {role})
        t5 == remove(t4, BucketMeta, "roles", {role})
    IN  end(b, t5)

\* the role also taken from the roles of each of its users
removeRoleAndMembers(b, role) ==
    LET resources == Enum(get(b, BucketResources, role))
        members == Enum(get(b, BucketRoles, role))
        t1 == [i \in 1..Len(resources) |-> DelEntry(allowsBucket(resources[i]), {role})]
        t2 == del(t1, BucketResources, {role})
        t3 == del(t2, BucketParents, {role})
        t4 == del(t3, BucketRoles, {role})
        t5 == remove(t4, BucketMeta, "roles", {role})
    IN  t5 \o [i \in 1..Len(members) |-> RemoveEntry(BucketUsers, members[i], {role})]

removeRoleTransaction(b, role) ==
    LET resources == Enum(get(b, BucketResources, role))
        t1 == [i \in 1..Len(resources) |-> DelEntry(allowsBucket(resources[i]), {role})]
        t2 == del(t1, BucketResources, {role})
        t3 == del(t2, BucketParents, {role})
        t4 == del(t3, BucketRoles, {role})
    IN  remove(t4, BucketMeta, "roles", {role})

removeRole(b, role) ==
    end(b, removeRoleTransaction(b, role))

removeResourceTransaction(b, resource) ==
    LET roles == Enum(get(b, BucketMeta, "roles"))
        t1 == del(begin, allowsBucket(resource), Range(roles))
    IN  t1 \o [i \in 1..Len(roles) |-> RemoveEntry(BucketResources, roles[i], {resource})]

removeResource(b, resource) ==
    end(b, removeResourceTransaction(b, resource))

\* what the flat form allow(roles, resources, permissions) queues between
\* begin and end
\* the grants added, the resources not recorded for the roles
allowNoListing(roles, resources, permissions) ==
    LET n == Len(roles)
        t1 == add(begin, BucketMeta, "roles", Range(roles))
    IN  t1 \o [k \in 1..(Len(resources) * n) |->
                 AddEntry(allowsBucket(resources[((k - 1) \div n) + 1]),
                          roles[((k - 1) % n) + 1],
                          Range(permissions))]

allowTransaction(roles, resources, permissions) ==
    LET n == Len(roles)
        t1 == add(begin, BucketMeta, "roles", Range(roles))
        t2 == t1 \o [k \in 1..(Len(resources) * n) |->
                        AddEntry(allowsBucket(resources[((k - 1) \div n) + 1]),
                                 roles[((k - 1) % n) + 1],
                                 Range(permissions))]
    IN  t2 \o [i \in 1..n |-> AddEntry(BucketResources, roles[i], Range(resources))]

\* the flat form allow(roles, resources, permissions), run to completion
allow(b, roles, resources, permissions) ==
    end(b, allowTransaction(roles, resources, permissions))

\* removePermissions that revokes only what it is given: nothing, when the
\* permissions argument is missing
removePermissionsGivenOnly(b, role, resources, explicit, permissions) ==
    LET given == IF explicit THEN Range(permissions) ELSE {}
        b1 == end(b, [i \in 1..Len(resources) |->
                        RemoveEntry(allowsBucket(resources[i]), role, given)])
        transaction2 ==
            Flat([i \in 1..Len(resources) |->
                    IF get(b1, allowsBucket(resources[i]), role) = {}
                    THEN <<RemoveEntry(BucketResources, role, {resources[i]})>>
                    ELSE <<>>])
    IN  end(b1, transaction2)

\* removePermissions without its second batch
removePermissionsOnePhase(b, role, resources, explicit, permissions) ==
    end(b, Flat([i \in 1..Len(resources) |->
                    IF explicit
                    THEN <<RemoveEntry(allowsBucket(resources[i]), role, Range(permissions))>>
                    ELSE <<DelEntry(allowsBucket(resources[i]), {role}),
                           RemoveEntry(BucketResources, role, {resources[i]})>>]))

\* explicit: the call passed a (truthy) permissions argument
\* the listing of a resource dropped before the grants on it
removePermissionsListFirst(role, resources, explicit, permissions) ==
    Flat([i \in 1..Len(resources) |->
            IF explicit
            THEN <<RemoveEntry(allowsBucket(resources[i]), role, Range(permissions))>>
            ELSE <<RemoveEntry(BucketResources, role, {resources[i]}),
                   DelEntry(allowsBucket(resources[i]), {role})>>])

removePermissionsTransaction(role, resources, explicit, permissions) ==
    Flat([i \in 1..Len(resources) |->
            IF explicit
            THEN <<RemoveEntry(allowsBucket(resources[i]), role, Range(permissions))>>
            ELSE <<DelEntry(allowsBucket(resources[i]), {role}),
                   RemoveEntry(BucketResources, role, {resources[i]})>>])

\* transaction2, queued from what the store b1 holds after the first batch
removePermissionsTransaction2(b1, role, resources) ==
    Flat([i \in 1..Len(resources) |->
            IF get(b1, allowsBucket(resources[i]), role) = {}
            THEN <<RemoveEntry(BucketResources, role, {resources[i]})>>
            ELSE <<>>])

removePermissions(b, role, resources, explicit, permissions) ==
    LET b1 == end(b, removePermissionsTransaction(role, resources, explicit, permissions))
    IN  end(b1, removePermissionsTransaction2(b1, role, resources))

removeAllow(b, role, resources, explicit, permissions) ==
    removePermissions(b, role, resources, explicit, permissions)

----------------------------------------------------------------------------
(* The role hierarchy as stored, read key by key (no union) *)

ParentsOf(b, R) == UNION {get(b, BucketParents, r) : r \in R}

\* R and every role reachable from R over parent edges
RECURSIVE Closure(_, _)
Closure(b, R) ==
    LET n == R \cup ParentsOf(b, R)
    IN  IF n = R THEN R ELSE Closure(b, n)

\* the engine enforces no cycle-freedom: callers must not introduce cycles
Acyclic(b) == \A r \in Roles : r \notin Closure(b, ParentsOf(b, {r}))

----------------------------------------------------------------------------
(* The state machine: public mutations run one at a time to completion *)

Call(op, userId, role, roles, resources, explicit, permissions) ==
    [op |-> op, userId |-> userId, role |-> role, roles |-> roles,
     resources |-> resources, explicit |-> explicit, permissions |-> permissions]

\* an argument as contract sees it: its type and, for a string or an array,
\* the array makeArray turns it into
Arg(type, value) == [type |-> type, value |-> value]
Str(x) == Arg("string", <<x>>)
Arr(xs) == Arg("array", xs)
Num == Arg("number", <<>>)

makeArray(arr) == arr.value

\* contract(arguments).params(...).params(...).end(): the call goes on when
\* the arguments have the number and the types of one of the alternatives
contract(arguments, alternatives) ==
    \E params \in alternatives :
        /\ Len(arguments) = Len(params)
        /\ \A i \in 1..Len(params) : arguments[i].type \in params[i]

StringOrArray == {"string", "array"}
\* a JavaScript value as the middleware tests it: its typeof and, for a
\* string, the string ("" makes it falsy); a function is given by what it
\* returns for the request
Value(type, string) == [type |-> type, string |-> string, returns |-> "undefined"]
Function(value) == [type |-> "function", string |-> value.string, returns |-> value.type]
Undefined == Value("undefined", "")

NoRequest ==
    [pc |-> "idle", userId |-> Undefined, actions |-> Arg("undefined", <<>>),
     session |-> Undefined, user |-> Undefined, url |-> <<>>, method |-> "",
     _userId |-> Undefined, isAllowed |-> 0, settled |-> "no", next |-> <<>>]

NoBatch == [status |-> "idle", before |-> NewBackend, interleaved |-> FALSE]

\* The store is fresh, or is the one an earlier session left behind after
\* building the hierarchy r1 -> r2 -> r3 and assigning r1 to u1.
SeededStore ==
    addUserRoles(
        addRoleParents(addRoleParents(NewBackend, "r1", <<"r2">>), "r2", <<"r3">>),
        "u1", <<"r1">>)

InitStores == {NewBackend, SeededStore}

NoCall == Call("none", "", "", <<>>, <<>>, FALSE, <<>>)

Init ==
    /\ buckets \in InitStores
    /\ prev = buckets
    /\ last = NoCall
    /\ nops = 0
    /\ history = TRUE
    /\ batch = NoBatch
    /\ calls = <<>>
    /\ mw = NoRequest

\* the same start, for runs that keep no record of the last call
InitStore ==
    /\ buckets \in InitStores
    /\ prev = NewBackend
    /\ last = NoCall
    /\ nops = 0
    /\ history = FALSE
    /\ batch = NoBatch
    /\ calls = <<>>
    /\ mw = NoRequest

Done(b, call) ==
    /\ buckets' = b
    /\ prev' = IF history THEN buckets ELSE prev
    /\ last' = IF history THEN call ELSE last
    /\ nops' = nops + 1
    /\ UNCHANGED <<history, batch, calls, mw>>

AddUserRoles ==
    /\ nops < MaxOps
    /\ \E userId \in Users, roles \in UserRoleArgs :
        Done(addUserRoles(buckets, userId, roles),
             Call("addUserRoles", userId, "", roles, <<>>, FALSE, <<>>))

RemoveUserRoles ==
    /\ nops < MaxOps
    /\ \E userId \in Users, roles \in UserRoleArgs :
        Done(removeUserRoles(buckets, userId, roles),
             Call("removeUserRoles", userId, "", roles, <<>>, FALSE, <<>>))

AddRoleParents ==
    /\ nops < MaxOps
    /\ \E role \in Roles, parents \in ParentArgs :
        /\ Acyclic(addRoleParents(buckets, role, parents))
        /\ Done(addRoleParents(buckets, role, parents),
                Call("addRoleParents", "", role, parents, <<>>, FALSE, <<>>))

RemoveRoleParents ==
    /\ nops < MaxOps
    /\ \E role \in Roles, explicit \in BOOLEAN, parents \in ParentArgs :
        /\ ~explicit => parents = <<"r2">>
        /\ Done(removeRoleParents(buckets, role, explicit, parents),
                Call("removeRoleParents", "", role, IF explicit THEN parents ELSE <<>>,
                     <<>>, explicit, <<>>))

RemoveRole ==
    /\ nops < MaxOps
    /\ \E role \in Roles :
        Done(removeRole(buckets, role),
             Call("removeRole", "", role, <<>>, <<>>, FALSE, <<>>))

RemoveResource ==
    /\ nops < MaxOps
    /\ \E resource \in Resources :
        Done(removeResource(buckets, resource),
             Call("removeResource", "", "", <<>>, <<resource>>, FALSE, <<>>))

Allow ==
    /\ nops < MaxOps
    /\ \E roles \in AllowRoleArgs, resources \in ResourceArgs, permissions \in PermissionArgs :
        Done(allow(buckets, roles, resources, permissions),
             Call("allow", "", "", roles, resources, TRUE, permissions))

RemoveAllow ==
    /\ nops < MaxOps
    /\ \E role \in Roles, resources \in ResourceArgs, explicit \in BOOLEAN,
       permissions \in RevokeArgs :
        /\ ~explicit => permissions = <<"view">>
        /\ Done(removeAllow(buckets, role, resources, explicit, permissions),
                Call("removeAllow", "", role, <<>>, resources, explicit,
                     IF explicit THEN permissions ELSE <<>>))

Next ==
    \/ AddUserRoles
    \/ RemoveUserRoles
    \/ AddRoleParents
    \/ RemoveRoleParents
    \/ RemoveRole
    \/ RemoveResource
    \/ Allow
    \/ RemoveAllow

Spec == Init /\ [][Next]_vars

\* the stores the public mutations reach
SpecStore == InitStore /\ [][Next]_vars

\* allow for resources named by overlapping patterns
AllowPatterns ==
    /\ nops < MaxOps
    /\ \E resource \in {ResADot, ResDotDot}, permissions \in {<<"view">>, <<Star>>} :
        Done(allow(buckets, <<"r1">>, <<resource>>, permissions),
             Call("allow", "", "", <<"r1">>, <<resource>>, TRUE, permissions))

\* the mutations that only add
NextAdd ==
    \/ AddUserRoles
    \/ AddRoleParents
    \/ Allow
    \/ AllowPatterns

SpecAdd == Init /\ [][NextAdd]_vars

----------------------------------------------------------------------------
(* allow(permissionsArray): _allowEx starts one flat allow per grant and
   waits for all of them.  Every await of a started call is a point where
   another started call may run; a queued closure runs without interruption.
   Queueing reads and writes nothing shared, so it is one step. *)

AllowParams == {<<StringOrArray, StringOrArray, StringOrArray>>, <<{"array"}>>}

Grant(resources, permissions) == [resources |-> resources, permissions |-> permissions]
Record(roles, allows) == [roles |-> roles, allows |-> allows]

\* the permissionsArray arguments tried; every element is a string
BatchArgs ==
    { <<Record(Arr(<<"r1", "r2">>),
               <<Grant(Str(ResA), Arr(<<"view", "edit">>)),
                 Grant(Arr(<<ResA, ResDot>>), Str(Star))>>)>>,
      <<Record(Str("r1"), <<Grant(Str(ResA), Str("view"))>>),
        Record(Arr(<<"r1", "r3">>), <<Grant(Str(ResA), Str("edit"))>>)>>,
      <<Record(Str("r1"),
               <<Grant(Str(ResA), Str("view")),
                 Grant(Str(ResA), Str("edit")),
                 Grant(Str(ResDot), Str("view"))>>)>>,
      <<Record(Str("r1"), <<Grant(Str(ResA), Str("view"))>>),
        Record(Num, <<Grant(Str(ResA), Str("edit"))>>)>>,
      <<Record(Str("r2"),
               <<Grant(Str(ResDot), Str(Star)), Grant(Str(ResA), Num)>>)>>,
      <<Record(Str("r1"),
               <<Grant(Num, Str("view")), Grant(Str(ResA), Str("view"))>>)>> }

\* the list _allowEx builds before it starts the calls
demuxed(objs) ==
    Flat([i \in 1..Len(objs) |->
            [j \in 1..Len(objs[i].allows) |->
                [roles |-> objs[i].roles,
                 resources |-> objs[i].allows[j].resources,
                 permissions |-> objs[i].allows[j].permissions]]])

\* allow(permissionsArray) up to the return of _allowEx: each flat allow
\* runs to its contract check, and past it to its first await
AllowEx ==
    /\ batch.status = "idle"
    /\ \E objs \in BatchArgs :
        /\ contract(<<Arr(objs)>>, AllowParams)
        /\ batch' = [status |-> "running", before |-> buckets, interleaved |-> FALSE]
        /\ calls' = [i \in 1..Len(demuxed(objs)) |->
                        LET obj == demuxed(objs)[i]
                        IN  [args |-> obj,
                             pc |-> IF contract(<<obj.roles, obj.resources, obj.permissions>>,
                                                AllowParams)
                                    THEN "begin"
                                    ELSE "rejected",
                             transaction |-> <<>>,
                             ran |-> 0]]
    /\ UNCHANGED <<buckets, prev, last, nops, history, mw>>

\* a started flat allow, from begin to the call of end
AllowQueue ==
    \E i \in DOMAIN calls :
        /\ calls[i].pc = "begin"
        /\ calls' = [calls EXCEPT ![i] =
                        [@ EXCEPT !.pc = "end",
                                  !.transaction =
                                      allowTransaction(makeArray(calls[i].args.roles),
                                                       makeArray(calls[i].args.resources),
                                                       makeArray(calls[i].args.permissions))]]
        /\ UNCHANGED <<buckets, prev, last, nops, history, batch, mw>>

\* one turn of the loop of MemoryBackend.end of a started flat allow
AllowEnd ==
    \E i \in DOMAIN calls :
        /\ calls[i].pc = "end"
        /\ buckets' = Run(buckets, Head(calls[i].transaction))
        /\ calls' = [calls EXCEPT ![i] =
                        [@ EXCEPT !.pc = IF Len(calls[i].transaction) = 1 THEN "done" ELSE "end",
                                  !.transaction = Tail(@),
                                  !.ran = @ + 1]]
        /\ batch' = [batch EXCEPT !.interleaved =
                        @ \/ \E j \in DOMAIN calls \ {i} :
                                calls[j].pc = "end" /\ calls[j].ran > 0]
        /\ UNCHANGED <<prev, last, nops, history, mw>>

\* Promise.all: rejected as soon as one call is, fulfilled when all are
AllowExSettle ==
    /\ batch.status = "running"
    /\ \/ /\ \E i \in DOMAIN calls : calls[i].pc = "rejected"
          /\ batch' = [batch EXCEPT !.status = "rejected"]
       \/ /\ \A i \in DOMAIN calls : calls[i].pc = "done"
          /\ batch' = [batch EXCEPT !.status = "resolved"]
    /\ UNCHANGED <<buckets, prev, last, nops, history, calls, mw>>

NextBatch ==
    \/ AllowEx
    \/ AllowQueue
    \/ AllowEnd
    \/ AllowExSettle

SpecBatch == Init /\ [][NextBatch]_vars

----------------------------------------------------------------------------
(* Public mutations in progress at the same time.  A read of the memory
   backend happens when it is called, the awaited queueing calls touch
   nothing shared, and MemoryBackend.end awaits after every queued closure.
   So the read and the queueing of a call are one step and each of its
   closures is one more; removePermissions reads again, and queues its
   second batch, after the first has run. *)

GrantedStore == allow(SeededStore, <<"r1">>, <<ResA>>, <<"view", "edit">>)

PatternStore == allow(GrantedStore, <<"r1", "r2">>, <<ResDot>>, <<"view">>)

ConcurrentStores == {SeededStore, GrantedStore, PatternStore}

\* the calls that may be in progress together
ConcurrentCalls ==
    {Call("allow", "", "", <<"r1">>, <<ResA>>, TRUE, <<"edit">>),
     Call("allow", "", "", <<"r1", "r2">>, <<ResA>>, TRUE, <<Star>>),
     Call("removeAllow", "", "r1", <<>>, <<ResA>>, TRUE, <<"view">>),
     Call("removeAllow", "", "r1", <<>>, <<ResA>>, TRUE, <<"view", "edit">>),
     Call("removeAllow", "", "r1", <<>>, <<ResA>>, FALSE, <<>>),
     Call("removeAllow", "", "r1", <<>>, <<ResA, ResDot>>, TRUE, <<"view">>),
     Call("removeRole", "", "r1", <<>>, <<>>, FALSE, <<>>),
     Call("removeResource", "", "", <<>>, <<ResA>>, FALSE, <<>>),
     Call("addUserRoles", "u2", "", <<"r1", "r2">>, <<>>, FALSE, <<>>),
     Call("removeUserRoles", "u1", "", <<"r1">>, <<>>, FALSE, <<>>)}

\* what a call queues for its first (or only) batch, called on the store b
Queued(b, call) ==
    CASE call.op = "addUserRoles" -> addUserRolesTransaction(call.userId, call.roles)
      [] call.op = "removeUserRoles" -> removeUserRolesTransaction(call.userId, call.roles)
      [] call.op = "addRoleParents" -> addRoleParentsTransaction(call.role, call.roles)
      [] call.op = "removeRoleParents" ->
            IF call.explicit
            THEN remove(begin, BucketParents, call.role, Range(call.roles))
            ELSE del(begin, BucketParents, {call.role})
      [] call.op = "allow" -> allowTransaction(call.roles, call.resources, call.permissions)
      [] call.op = "removeAllow" ->
            removePermissionsTransaction(call.role, call.resources, call.explicit,
                                         call.permissions)
      [] call.op = "removeRole" -> removeRoleTransaction(b, call.role)
      [] call.op = "removeResource" -> removeResourceTransaction(b, call.resources[1])

\* one or two public calls are made
Issue ==
    /\ calls = <<>>
    /\ \E first \in ConcurrentCalls, others \in {<<>>} \cup {<<c>> : c \in ConcurrentCalls} :
        calls' = [i \in 1..(1 + Len(others)) |->
                    [call |-> (<<first>> \o others)[i], pc |-> "start",
                     transaction |-> <<>>, ran |-> 0]]
    /\ prev' = buckets
    /\ UNCHANGED <<buckets, last, nops, history, batch, mw>>

\* a call from its start to its call of end
CallBegin ==
    \E i \in DOMAIN calls :
        /\ calls[i].pc = "start"
        /\ calls' = [calls EXCEPT ![i] =
                        [@ EXCEPT !.pc = "end",
                                  !.transaction = Queued(buckets, calls[i].call)]]
        /\ UNCHANGED <<buckets, prev, last, nops, history, batch, mw>>

\* one turn of the loop of MemoryBackend.end
CallEnd ==
    \E i \in DOMAIN calls :
        /\ calls[i].pc \in {"end", "end2"}
        /\ buckets' = Run(buckets, Head(calls[i].transaction))
        /\ calls' = [calls EXCEPT ![i] =
                        [@ EXCEPT !.pc = IF Len(calls[i].transaction) > 1
                                         THEN calls[i].pc
                                         ELSE IF calls[i].pc = "end"
                                                 /\ calls[i].call.op = "removeAllow"
                                              THEN "second"
                                              ELSE "done",
                                  !.transaction = Tail(@),
                                  !.ran = @ + 1]]
        /\ UNCHANGED <<prev, last, nops, history, batch, mw>>

\* removePermissions between its two batches: the reads and transaction2
CallSecondBatch ==
    \E i \in DOMAIN calls :
        /\ calls[i].pc = "second"
        /\ LET transaction2 ==
                   removePermissionsTransaction2(buckets, calls[i].call.role,
                                                 calls[i].call.resources)
           IN  calls' = [calls EXCEPT ![i] =
                            [@ EXCEPT !.pc = IF transaction2 = <<>> THEN "done" ELSE "end2",
                                      !.transaction = transaction2]]
        /\ UNCHANGED <<buckets, prev, last, nops, history, batch, mw>>

InitConcurrent ==
    /\ buckets \in ConcurrentStores
    /\ prev = buckets
    /\ last = NoCall
    /\ nops = 0
    /\ history = FALSE
    /\ batch = NoBatch
    /\ calls = <<>>
    /\ mw = NoRequest

NextConcurrent ==
    \/ Issue
    \/ CallBegin
    \/ CallEnd
    \/ CallSecondBatch

SpecConcurrent == InitConcurrent /\ [][NextConcurrent]_vars

----------------------------------------------------------------------------
(* The batches of the engine on a backend whose end starts every queued
   closure before it awaits any (MongoDBBackend.end: transaction.map(fn =>
   fn()), then Promise.all): the operations reach the store in any order.
   The store is the store of the memory backend: what is modelled of the
   other backend is the order in which a batch takes effect. *)

MongoCalls ==
    {Call("addUserRoles", "u2", "", <<"r1", "r2">>, <<>>, FALSE, <<>>),
     Call("addUserRoles", "u1", "", <<"r1", "r1">>, <<>>, FALSE, <<>>),
     Call("removeUserRoles", "u1", "", <<"r1", "r2">>, <<>>, FALSE, <<>>),
     Call("addRoleParents", "", "r1", <<"r2", "r3">>, <<>>, FALSE, <<>>),
     Call("removeRoleParents", "", "r1", <<"r2">>, <<>>, TRUE, <<>>),
     Call("removeRoleParents", "", "r1", <<>>, <<>>, FALSE, <<>>),
     Call("removeRole", "", "r1", <<>>, <<>>, FALSE, <<>>),
     Call("removeResource", "", "", <<>>, <<ResA>>, FALSE, <<>>),
     Call("allow", "", "", <<"r1", "r2">>, <<ResA, ResDot>>, TRUE, <<"view", "edit">>),
     Call("removeAllow", "", "r1", <<>>, <<ResA, ResDot>>, TRUE, <<"view">>),
     Call("removeAllow", "", "r1", <<>>, <<ResA, ResA>>, TRUE, <<"view", "edit">>),
     Call("removeAllow", "", "r1", <<>>, <<ResA, ResDot>>, FALSE, <<>>)}

\* a public mutation is called
MongoCall ==
    /\ calls = <<>>
    /\ \E call \in MongoCalls :
        calls' = <<[call |-> call, pc |-> "start", transaction |-> <<>>, ran |-> 0]>>
    /\ prev' = buckets
    /\ UNCHANGED <<buckets, last, nops, history, batch, mw>>

\* one of the started closures takes effect, whichever
MongoEnd ==
    /\ calls # <<>>
    /\ calls[1].pc \in {"end", "end2"}
    /\ \E j \in DOMAIN calls[1].transaction :
        /\ buckets' = Run(buckets, calls[1].transaction[j])
        /\ calls' = <<[calls[1] EXCEPT
                         !.pc = IF Len(calls[1].transaction) > 1
                                THEN calls[1].pc
                                ELSE IF calls[1].pc = "end"
                                        /\ calls[1].call.op = "removeAllow"
                                     THEN "second"
                                     ELSE "done",
                         !.transaction = SubSeq(@, 1, j - 1) \o SubSeq(@, j + 1, Len(@)),
                         !.ran = @ + 1]>>
    /\ UNCHANGED <<prev, last, nops, history, batch, mw>>

NextMongo ==
    \/ MongoCall
    \/ CallBegin
    \/ MongoEnd
    \/ CallSecondBatch

SpecMongo == InitConcurrent /\ [][NextMongo]_vars

----------------------------------------------------------------------------
(* A public mutation queueing its operations one backend call at a time.
   The engine accepts an array for its roles whatever the array holds; the
   backend wants a string for the key of add and remove, so the call made
   for an element that is not a string throws there, after the calls for
   the elements before it and before end. *)

\* the number 5 as an element of an argument array; every other value of the
\* model is a string
Five == "5"

typeof(x) == IF x = Five THEN "number" ELSE "string"

\* contract(arguments).params("array", "string", "string", "string|array")
\* of add and remove, .params("array", "string", "string|array") of del
BackendContract(e) ==
    IF e.op = "del"
    THEN contract(<<Arr(<<>>), Str(e.bucket), Arr(<<>>)>>,
                  {<<{"array"}, {"string"}, StringOrArray>>})
    ELSE contract(<<Arr(<<>>), Str(e.bucket),
                    Arg(typeof(CHOOSE k \in e.keys : TRUE), <<>>), Arr(<<>>)>>,
                  {<<{"array"}, {"string"}, {"string"}, StringOrArray>>})

\* the closure run by the call that queues it
PushAndRun(b, transaction, e) ==
    [buckets |-> Run(b, e), transaction |-> transaction]

\* transaction.push(() => ...): the store and the transaction after
\* add, del or remove has queued the operation e
Push(b, transaction, e) ==
    [buckets |-> b, transaction |-> Append(transaction, e)]

QueueCalls ==
    {Call("addUserRoles", "u2", "", <<"r1", "r2">>, <<>>, FALSE, <<>>),
     Call("addUserRoles", "u2", "", <<"r1", Five>>, <<>>, FALSE, <<>>),
     Call("removeUserRoles", "u1", "", <<"r1">>, <<>>, FALSE, <<>>),
     Call("removeUserRoles", "u1", "", <<"r1", Five>>, <<>>, FALSE, <<>>),
     Call("allow", "", "", <<"r2">>, <<ResA, ResDot>>, TRUE, <<"view">>),
     Call("allow", "", "", <<"r2", Five>>, <<ResA>>, TRUE, <<"view">>),
     Call("removeRole", "", "r1", <<>>, <<>>, FALSE, <<>>),
     Call("removeResource", "", "", <<>>, <<ResA>>, FALSE, <<>>)}

\* a public mutation is called: begin, and what it will queue
QueueBegin ==
    /\ calls = <<>>
    /\ \E call \in QueueCalls :
        calls' = <<[call |-> call, pc |-> "queue", pending |-> Queued(buckets, call),
                    transaction |-> begin, ran |-> 0]>>
    /\ prev' = buckets
    /\ UNCHANGED <<buckets, last, nops, history, batch, mw>>

\* its next call of add, del or remove: the operation is queued, or the
\* call throws and the mutation is rejected
QueueOp ==
    /\ calls # <<>>
    /\ calls[1].pc = "queue"
    /\ LET e == Head(calls[1].pending)
           pushed == Push(buckets, calls[1].transaction, e)
       IN  IF BackendContract(e)
           THEN /\ buckets' = pushed.buckets
                /\ calls' = <<[calls[1] EXCEPT
                                 !.pc = IF Len(calls[1].pending) > 1 THEN "queue" ELSE "end",
                                 !.pending = Tail(@),
                                 !.transaction = pushed.transaction]>>
           ELSE /\ buckets' = buckets
                /\ calls' = <<[calls[1] EXCEPT !.pc = "rejected"]>>
    /\ UNCHANGED <<prev, last, nops, history, batch, mw>>

NextQueue ==
    \/ QueueBegin
    \/ QueueOp
    \/ CallEnd

SpecQueue == InitConcurrent /\ [][NextQueue]_vars

----------------------------------------------------------------------------
(* MemoryBackend with the stored values as the arrays they are: a store is
   as above but for b.data[bucket][key], here a sequence. *)

\* _.uniq: the first occurrence of every element, in order
RECURSIVE _uniq(_)
_uniq(array) ==
    IF array = <<>>
    THEN <<>>
    ELSE LET init == _uniq(SubSeq(array, 1, Len(array) - 1))
             x == array[Len(array)]
         IN  IF x \in Range(init) THEN init ELSE Append(init, x)

\* _.union(a, b)
_union(a, b) == _uniq(a \o b)

\* _.difference(array, values)
_difference(array, values) ==
    LET Keep(x) == x \notin Range(values)
    IN  SelectSeq(array, Keep)

\* the closure pushed by add, on arrays
ArrayRunAdd(b, bucket, key, values) ==
    LET m == IF bucket \in DOMAIN b.data THEN b.data[bucket] ELSE EmptyMap
    IN  PutBucket(b, bucket,
            IF key \notin DOMAIN m
            THEN Put(m, key, values)
            ELSE Put(m, key, _union(values, m[key])))

\* the closure pushed by remove, on arrays
ArrayRunRemove(b, bucket, key, values) ==
    IF bucket \in DOMAIN b.data /\ key \in DOMAIN b.data[bucket]
    THEN PutBucket(b, bucket, Put(b.data[bucket], key, _difference(b.data[bucket][key], values)))
    ELSE b

\* the buckets, the key and the arrays the backend is called with
ArrayBuckets == {BucketUsers, BucketRoles}

ArrayKey == "k"

ArrayArgs ==
    {<<>>, <<"x">>, <<"y">>, <<"x", "x">>, <<"x", "y">>, <<"y", "x">>, <<"y", "y">>}

BackendCall(op, bucket, values) == [op |-> op, bucket |-> bucket, values |-> values]

BackendDone(b, call) ==
    /\ buckets' = b
    /\ prev' = buckets
    /\ last' = call
    /\ UNCHANGED <<nops, history, batch, calls, mw>>

\* begin, add(transaction, bucket, key, values), end
BackendAdd ==
    \E bucket \in ArrayBuckets, values \in ArrayArgs :
        BackendDone(ArrayRunAdd(buckets, bucket, ArrayKey, values),
                    BackendCall("add", bucket, values))

\* begin, remove(transaction, bucket, key, values), end
BackendRemove ==
    \E bucket \in ArrayBuckets, values \in ArrayArgs :
        BackendDone(ArrayRunRemove(buckets, bucket, ArrayKey, values),
                    BackendCall("remove", bucket, values))

\* begin, del(transaction, bucket, key), end
BackendDel ==
    \E bucket \in ArrayBuckets :
        BackendDone(RunDel(buckets, bucket, {ArrayKey}),
                    BackendCall("del", bucket, <<>>))

InitArrays ==
    /\ buckets = NewBackend
    /\ prev = NewBackend
    /\ last = BackendCall("none", <<>>, <<>>)
    /\ nops = 0
    /\ history = TRUE
    /\ batch = NoBatch
    /\ calls = <<>>
    /\ mw = NoRequest

NextArrays ==
    \/ BackendAdd
    \/ BackendRemove
    \/ BackendDel

SpecArrays == InitArrays /\ [][NextArrays]_vars

----------------------------------------------------------------------------
(* The recursive queries, one level of recursion a step.  A query in
   progress is a record: the call, the recursive function it is in (fn)
   with the arguments of its innermost invocation (roles, resource,
   permissions), the invocations awaiting that one (stack: what each will
   merge into the value returned to it), the value on its way back, and the
   resources whose permissions are still to be asked (todo).  The store
   does not change while the query runs.  The hierarchy may hold cycles:
   the engine does not prevent them. *)

MaxDepth == 4

\* r1 -> r2 -> r3 -> r1
LoopStore == addRoleParents(GrantedStore, "r3", <<"r1">>)

\* r2 -> r3 -> r2, r1 without parents; u1 has r1, u2 has r2
SideLoopStore ==
    addRoleParents(
        addRoleParents(
            addUserRoles(
                addUserRoles(allow(NewBackend, <<"r1">>, <<ResA>>, <<"view">>), "u1", <<"r1">>),
                "u2", <<"r2">>),
            "r2", <<"r3">>),
        "r3", <<"r2">>)

\* r1 -> r2 and r1 -> r3, r2 -> r3
DiamondStore ==
    addRoleParents(
        addRoleParents(
            addUserRoles(allow(NewBackend, <<"r3">>, <<ResA, ResDot>>, <<"view">>),
                         "u1", <<"r1">>),
            "r1", <<"r2", "r3">>),
        "r2", <<"r3">>)

\* r1 -> r2 -> r3 -> r1 with view on a granted to r1 and edit to r3
DeepLoopStore ==
    allow(allow(addRoleParents(SeededStore, "r3", <<"r1">>), <<"r1">>, <<ResA>>, <<"view">>),
          <<"r3">>, <<ResA>>, <<"edit">>)

QueryStores ==
    {NewBackend, GrantedStore, PatternStore, DiamondStore, LoopStore, SideLoopStore,
     DeepLoopStore}

Query(query, userId, roles, resources, permissions) ==
    [query |-> query, userId |-> userId, roles |-> roles, resources |-> resources,
     permissions |-> permissions]

Queries ==
    {Query("isAllowed", u, {}, <<ResA>>, perms) :
        u \in Users, perms \in {{"view"}, {"view", "edit"}}}
    \cup {Query("areAnyRolesAllowed", "", R, <<ResA>>, {"edit"}) : R \in SUBSET Roles}
    \cup {Query("allowedPermissions", u, {}, resources, {}) :
            u \in Users, resources \in {<<ResA>>, <<ResA, ResDot>>}}
    \cup {Query("optimizedAllowedPermissions", u, {}, <<ResA, ResDot>>, {}) : u \in Users}
    \cup {Query("whatResources", "", R, <<>>, {}) : R \in (SUBSET Roles) \ {{}}}
    \cup {Query("_allRoles", "", R, <<>>, {}) : R \in (SUBSET Roles) \ {{}}}
    \cup {Query("_resourcePermissions", "", R, <<ResA>>, {}) : R \in (SUBSET Roles) \ {{}}}

\* the query has returned
Returned(q) == [q EXCEPT !.pc = "returned"]

\* the query calls a recursive function
Enter(q, fn, roles, resource, permissions) ==
    [q EXCEPT !.pc = "call", !.fn = fn, !.roles = roles, !.resource = resource,
              !.permissions = permissions, !.stack = <<>>]

\* resources.map(async resource => ... _resourcePermissions(roles, resource)):
\* the next resource asked, or the result when none is left
NextResource(q, roles) ==
    IF q.todo = <<>>
    THEN Returned(q)
    ELSE Enter([q EXCEPT !.todo = Tail(@)], "_resourcePermissions", roles, Head(q.todo), {})

\* a public query from its call to its first recursive call
QueryBegin(b, call) ==
    LET q == [call |-> call, pc |-> "returned", fn |-> "none", roles |-> {},
              resource |-> <<>>, permissions |-> {}, stack |-> <<>>, value |-> {},
              allowed |-> FALSE, todo |-> <<>>, deepest |-> 0]
    IN  CASE call.query = "isAllowed" ->
                LET roles == get(b, BucketUsers, call.userId)
                IN  IF roles # {}
                    THEN Enter(q, "_checkPermissions", roles, call.resources[1],
                               call.permissions)
                    ELSE q
          [] call.query = "areAnyRolesAllowed" ->
                IF call.roles = {}
                THEN q
                ELSE Enter(q, "_checkPermissions", call.roles, call.resources[1],
                           call.permissions)
          [] call.query = "allowedPermissions" ->
                NextResource([q EXCEPT !.todo = call.resources],
                             userRoles(b, call.userId))
          [] call.query = "optimizedAllowedPermissions" ->
                LET roles == userRoles(b, call.userId)
                IN  IF roles # {} THEN Enter(q, "_allRoles", roles, <<>>, {}) ELSE q
          [] call.query \in {"whatResources", "_allRoles"} ->
                Enter(q, "_allRoles", call.roles, <<>>, {})
          [] call.query = "_resourcePermissions" ->
                Enter(q, "_resourcePermissions", call.roles, call.resources[1], {})

\* the call on the parents made with the permissions the invocation was
\* given, those it found included
RecurseAllPermissions(q, frame, parents, permissions) ==
    [q EXCEPT !.stack = Append(@, frame), !.roles = parents,
              !.deepest = IF Len(q.stack) + 1 > @ THEN Len(q.stack) + 1 ELSE @]

\* the invocation awaits its call of itself on the parents
Recurse(q, frame, parents, permissions) ==
    [q EXCEPT !.stack = Append(@, frame), !.roles = parents,
              !.permissions = permissions,
              !.deepest = IF Len(q.stack) + 1 > @ THEN Len(q.stack) + 1 ELSE @]

Return(q, value, allowed) ==
    [q EXCEPT !.pc = "return", !.value = value, !.allowed = allowed]

\* the body of the innermost invocation
Invoke(b, q) ==
    CASE q.fn = "_allRoles" ->
            LET parents == _rolesParents(b, q.roles)
            IN  IF parents # {}
                THEN Recurse(q, q.roles, parents, {})
                ELSE Return(q, q.roles, FALSE)
      [] q.fn = "_resourcePermissions" ->
            IF q.roles = {}
            THEN Return(q, {}, FALSE)
            ELSE LET resourcePermissions == union(b, allowsBucket(q.resource), q.roles)
                     parents == _rolesParents(b, q.roles)
                 IN  IF parents # {}
                     THEN Recurse(q, resourcePermissions, parents, {})
                     ELSE Return(q, resourcePermissions, FALSE)
      [] q.fn = "_checkPermissions" ->
            LET resourcePermissions == union(b, allowsBucket(q.resource), q.roles)
                permissions == {p \in q.permissions : p \notin resourcePermissions}
                parents == union(b, BucketParents, q.roles)
            IN  IF Star \in resourcePermissions
                THEN Return(q, {}, TRUE)
                ELSE IF permissions = {}
                     THEN Return(q, {}, TRUE)
                     ELSE IF parents # {}
                          THEN Recurse(q, {}, parents, permissions)
                          ELSE Return(q, {}, FALSE)

\* the outermost invocation has returned: the rest of the public query
Resume(b, q) ==
    CASE q.call.query = "whatResources" /\ q.fn = "_allRoles" ->
            LET allRoles == Enum(q.value)
                resources ==
                    Flat([i \in 1..Len(allRoles) |->
                            Enum(get(b, BucketResources, allRoles[i]))])
            IN  NextResource([q EXCEPT !.todo = resources], q.call.roles)
      [] q.call.query = "whatResources" /\ q.fn = "_resourcePermissions" ->
            NextResource(q, q.call.roles)
      [] q.call.query = "allowedPermissions" ->
            NextResource(q, userRoles(b, q.call.userId))
      [] OTHER -> Returned(q)

\* a value is handed to the invocation that awaits it, which merges it into
\* what it returns
Settled(b, q) ==
    IF q.stack = <<>>
    THEN Resume(b, q)
    ELSE [q EXCEPT !.stack = SubSeq(@, 1, Len(@) - 1),
                   !.value = IF q.fn = "_checkPermissions"
                             THEN @
                             ELSE q.stack[Len(q.stack)] \cup @]

\* a public query, or one of the recursive functions, is called
QueryCall ==
    /\ calls = <<>>
    /\ \E call \in Queries : calls' = <<QueryBegin(buckets, call)>>
    /\ UNCHANGED <<buckets, prev, last, nops, history, batch, mw>>

\* the storage calls of the innermost invocation return and it goes on
QueryInvoke ==
    /\ calls # <<>>
    /\ calls[1].pc = "call"
    /\ Len(Invoke(buckets, calls[1]).stack) <= MaxDepth
    /\ calls' = <<Invoke(buckets, calls[1])>>
    /\ UNCHANGED <<buckets, prev, last, nops, history, batch, mw>>

\* an awaited invocation returns
QuerySettle ==
    /\ calls # <<>>
    /\ calls[1].pc = "return"
    /\ calls' = <<Settled(buckets, calls[1])>>
    /\ UNCHANGED <<buckets, prev, last, nops, history, batch, mw>>

InitQuery ==
    /\ buckets \in QueryStores
    /\ prev = buckets
    /\ last = NoCall
    /\ nops = 0
    /\ history = FALSE
    /\ batch = NoBatch
    /\ calls = <<>>
    /\ mw = NoRequest

NextQuery ==
    \/ QueryCall
    \/ QueryInvoke
    \/ QuerySettle

\* every storage call returns: a query that can take a step takes it
SpecQuery ==
    InitQuery /\ [][NextQuery]_vars /\ WF_vars(QueryInvoke) /\ WF_vars(QuerySettle)

----------------------------------------------------------------------------
(* middleware(numPathComponents, userId, actions), for requests whose url
   has no query string and with numPathComponents and the logger left out:
   the resource is the url. *)

HttpError(errorCode, msg) == [name |-> "HttpError", errorCode |-> errorCode, message |-> msg]
Error(msg) == [name |-> "Error", message |-> msg]

Truthy(v) == v.type \in {"number", "function"} \/ (v.type = "string" /\ v.string # "")

\* the userId arguments of middleware and the ids a request carries
UserIdArgs ==
    {Undefined, Value("string", ""), Value("string", "u1"), Value("number", "7"),
     Function(Value("string", "u2")), Function(Undefined)}
SessionUserIds == {Undefined, Value("string", "u1"), Value("number", "7")}
RequestUserIds == {Undefined, Value("string", "u2")}
ActionsArgs == {Arg("undefined", <<>>), Str("view"), Arr(<<"view", "edit">>)}
Methods == {"VIEW", "EDIT"}

toLowerCase(method) ==
    CASE method = "VIEW" -> "view"
      [] method = "EDIT" -> "edit"
      [] OTHER -> method

IsAllowedParams == {<<{"string"}, {"string"}, StringOrArray>>}

\* what the handler has in _userId when it reaches "Issue #80"; Undefined
\* also when it left before with 401
ResolveUserId(userId, session, user) ==
    LET called == IF userId.type = "function"
                  THEN Value(userId.returns, userId.string)
                  ELSE userId
    IN  IF ~Truthy(userId)
        THEN IF Truthy(session) THEN session
             ELSE IF Truthy(user) THEN user
             ELSE Undefined
        ELSE called

\* the .then handler that calls next() whatever isAllowed resolved to
ThenAlwaysNext(allowed) == <<>>

\* the arguments the .then handler passes to next
Then(allowed) ==
    IF allowed = FALSE
    THEN <<HttpError(403, "Insufficient permissions to access resource")>>
    ELSE <<>>

\* the arguments the .catch handler passes to next
Catch == <<Error("Error checking permissions to access resource")>>

\* the handler, from its call to the return that follows the call of
\* isAllowed or of next(401)
Request ==
    /\ mw.pc = "idle"
    /\ \E userId \in UserIdArgs, actions \in ActionsArgs, session \in SessionUserIds,
          user \in RequestUserIds, url \in Resources, method \in Methods :
        LET _userId == ResolveUserId(userId, session, user)
            req == [mw EXCEPT !.userId = userId, !.actions = actions,
                              !.session = session, !.user = user,
                              !.url = url, !.method = method, !._userId = _userId]
        IN  IF ~Truthy(_userId)
            THEN mw' = [req EXCEPT !.pc = "done",
                                   !.next = Append(@, <<HttpError(401, "User not authenticated")>>)]
            ELSE mw' = [req EXCEPT !.pc = "pending",
                                   !.actions = IF actions.type = "undefined"
                                               THEN Str(toLowerCase(method))
                                               ELSE actions,
                                   !.isAllowed = @ + 1]
    /\ UNCHANGED <<buckets, prev, last, nops, history, batch, calls>>

\* isAllowed settles and the .then or the .catch handler runs
Settle ==
    /\ mw.pc = "pending"
    /\ IF contract(<<Arg(mw._userId.type, <<>>), Str(mw.url), mw.actions>>, IsAllowedParams)
       THEN LET allowed == isAllowed(buckets, mw._userId.string, mw.url,
                                     Range(makeArray(mw.actions)))
            IN  mw' = [mw EXCEPT !.pc = "done",
                                 !.settled = IF allowed THEN "true" ELSE "false",
                                 !.next = Append(@, Then(allowed))]
       ELSE mw' = [mw EXCEPT !.pc = "done",
                             !.settled = "rejected",
                             !.next = Append(@, Catch)]
    /\ UNCHANGED <<buckets, prev, last, nops, history, batch, calls>>

\* the stores the requests are served from: users and roles as seeded, with
\* and without grants
MiddlewareStores ==
    {SeededStore,
     allow(SeededStore, <<"r1">>, <<ResA>>, <<"view">>),
     allow(addUserRoles(SeededStore, "u2", <<"r3">>), <<"r3">>, <<ResA, ResDot>>, <<Star>>)}

InitMiddleware ==
    /\ buckets \in MiddlewareStores
    /\ prev = NewBackend
    /\ last = NoCall
    /\ nops = 0
    /\ history = FALSE
    /\ batch = NoBatch
    /\ calls = <<>>
    /\ mw = NoRequest

NextMiddleware ==
    \/ Request
    \/ Settle

SpecMiddleware == InitMiddleware /\ [][NextMiddleware]_vars

----------------------------------------------------------------------------
(* What the claims speak of *)

PermissionSets == SUBSET Permissions
ResourceLists == SUBSET Resources

\* the union of allows_<resource> over R and all transitive ancestors of R
Granted(b, R, resource) ==
    UNION {get(b, allowsBucket(resource), r) : r \in Closure(b, R)}

BucketOf(b, bucket) == IF bucket \in DOMAIN b.data THEN b.data[bucket] ELSE EmptyMap

\* C1: isAllowed(u, res, perms) is true exactly when u has a directly
\* assigned role and '*' or every permission of perms is in the union of
\* allows_<res> over u's roles and all their transitive ancestors.
C1_IsAllowedExact ==
    \A u \in Users, res \in Resources, perms \in PermissionSets :
        isAllowed(buckets, u, res, perms)
            <=> /\ userRoles(buckets, u) # {}
                /\ \/ Star \in Granted(buckets, userRoles(buckets, u), res)
                   \/ perms \subseteq Granted(buckets, userRoles(buckets, u), res)

\* C2: if '*' is granted to role r on res, every user assigned r or a role
\* that has r as a transitive ancestor is allowed every permission set on res.
C2_WildcardInherited ==
    \A r \in Roles, res \in Resources :
        Star \in get(buckets, allowsBucket(res), r) =>
            \A d \in Roles, u \in Users :
                (r \in Closure(buckets, {d}) /\ d \in userRoles(buckets, u)) =>
                    \A perms \in PermissionSets : isAllowed(buckets, u, res, perms)

\* a user holds only r1, '*' sits two parent edges above it, and nobody was
\* ever granted "edit" on the resource
C2_Witness ==
    \E u \in Users, res \in Resources :
        /\ userRoles(buckets, u) = {"r1"}
        /\ Star \in get(buckets, allowsBucket(res), "r3")
        /\ "r3" \notin ParentsOf(buckets, {"r1"})
        /\ "r3" \in Closure(buckets, {"r1"})
        /\ \A r \in Roles : "edit" \notin get(buckets, allowsBucket(res), r)
        /\ isAllowed(buckets, u, res, {"edit", "view"})

\* C3: after removeRole(r), r has no grant on any resource, no resource
\* set, no parents, no members and is not in the metadata roles set; no
\* non-empty permission set is allowed to [r] or to a user whose only role is r.
C3_RemoveRoleClears ==
    last.op = "removeRole" =>
        /\ \A res \in Resources : get(buckets, allowsBucket(res), last.role) = {}
        /\ get(buckets, BucketResources, last.role) = {}
        /\ get(buckets, BucketParents, last.role) = {}
        /\ get(buckets, BucketRoles, last.role) = {}
        /\ last.role \notin get(buckets, BucketMeta, "roles")
        /\ \A res \in Resources, perms \in PermissionSets \ {{}} :
            /\ ~areAnyRolesAllowed(buckets, {last.role}, res, perms)
            /\ \A u \in Users :
                userRoles(buckets, u) = {last.role} => ~isAllowed(buckets, u, res, perms)

\* the removed role had a grant, and a user holding only that role was allowed
C3_Witness ==
    /\ last.op = "removeRole"
    /\ \E u \in Users, res \in Resources :
        /\ userRoles(prev, u) = {last.role}
        /\ userRoles(buckets, u) = {last.role}
        /\ get(prev, allowsBucket(res), last.role) # {}
        /\ isAllowed(prev, u, res, {"view"})

\* C4: after removeResource(res), no role has a grant on res, res is in no
\* role's resource set, and isAllowed(u, res, perms) is false for every
\* user and every non-empty perms.
C4_RemoveResourceClears ==
    last.op = "removeResource" =>
        LET res == last.resources[1]
        IN  /\ \A role \in Roles : get(buckets, allowsBucket(res), role) = {}
            /\ \A role \in Roles : res \notin get(buckets, BucketResources, role)
            /\ \A u \in Users, perms \in PermissionSets \ {{}} :
                ~isAllowed(buckets, u, res, perms)

\* C5: after the flat allow(roles, resources, perms), every pair of
\* roles x resources holds perms, lists the resource and has its role in the
\* metadata roles set, and no pair lost a permission it held.
C5_AllowGrants ==
    last.op = "allow" =>
        /\ \A role \in Range(last.roles), res \in Range(last.resources) :
            /\ Range(last.permissions) \subseteq get(buckets, allowsBucket(res), role)
            /\ res \in get(buckets, BucketResources, role)
            /\ role \in get(buckets, BucketMeta, "roles")
        /\ \A role \in Roles, res \in Resources :
            get(prev, allowsBucket(res), role) \subseteq get(buckets, allowsBucket(res), role)

\* a product of two roles and two resources was granted onto a pair that
\* already held a permission the call did not name
C5_Witness ==
    /\ last.op = "allow"
    /\ Len(last.roles) = 2
    /\ Len(last.resources) = 2
    /\ \E role \in Range(last.roles), res \in Range(last.resources) :
        get(prev, allowsBucket(res), role) \ Range(last.permissions) # {}

\* C6: for every user and resource list, the naive computation and
\* optimizedAllowedPermissions return the same map.
C6_NaiveEqualsOptimized ==
    \A u \in Users, resources \in ResourceLists :
        naiveAllowedPermissions(buckets, u, resources)
            = optimizedAllowedPermissions(buckets, u, resources)

C8_Mirror ==
    \A u \in Users, r \in Roles :
        r \in userRoles(buckets, u) <=> u \in roleUsers(buckets, r)

C10_RevokeFrame ==
    (last.op = "removeAllow" /\ last.explicit) =>
        /\ \A res \in Range(last.resources) :
            get(buckets, allowsBucket(res), last.role)
                = get(prev, allowsBucket(res), last.role) \ Range(last.permissions)
        /\ \A res \in Resources, r \in Roles :
            (r # last.role \/ res \notin Range(last.resources)) =>
                get(buckets, allowsBucket(res), r) = get(prev, allowsBucket(res), r)
        /\ \A bucket \in {BucketUsers, BucketRoles, BucketParents, BucketMeta} :
            BucketOf(buckets, bucket) = BucketOf(prev, bucket)

\* one of two permissions of the pair was revoked while another role holds
\* a grant on the same resource and the role holds one on an unlisted resource
C10_Witness ==
    /\ last.op = "removeAllow"
    /\ last.explicit
    /\ \E res \in Range(last.resources), other \in Resources \ Range(last.resources),
          r \in Roles \ {last.role} :
        /\ get(prev, allowsBucket(res), last.role) \cap Range(last.permissions) # {}
        /\ get(buckets, allowsBucket(res), last.role) # {}
        /\ get(buckets, allowsBucket(res), r) # {}
        /\ get(buckets, allowsBucket(other), last.role) # {}

\* C11: after removeAllow(role, resources) without a permissions argument,
\* for every listed resource allows_<resource>[role] is empty and the resource
\* is no longer listed in resources[role], whatever the pair held before.
C11_RevokeAllClears ==
    (last.op = "removeAllow" /\ ~last.explicit) =>
        \A res \in Range(last.resources) :
            /\ get(buckets, allowsBucket(res), last.role) = {}
            /\ res \notin get(buckets, BucketResources, last.role)

\* the call named two resources, both listed for the role, which held '*'
\* on them
C11_Witness ==
    /\ last.op = "removeAllow" /\ ~last.explicit
    /\ Len(last.resources) = 2
    /\ \A res \in Range(last.resources) :
            /\ get(prev, allowsBucket(res), last.role) # {}
            /\ res \in get(prev, BucketResources, last.role)
    /\ \E res \in Range(last.resources) : Star \in get(prev, allowsBucket(res), last.role)

\* the orders in which n calls can be executed one after another
Orders(n) == {f \in [1..n -> 1..n] : \A i, j \in 1..n : f[i] = f[j] => i = j}

\* the store after the first k flat allow calls of order f, each run to
\* completion before the next starts
RECURSIVE OneByOne(_, _, _, _)
OneByOne(b, cs, f, k) ==
    IF k = 0
    THEN b
    ELSE LET obj == cs[f[k]].args
         IN  allow(OneByOne(b, cs, f, k - 1),
                   makeArray(obj.roles), makeArray(obj.resources),
                   makeArray(obj.permissions))

\* C12: once allow(permissionsArray) has resolved, whatever the interleaving
\* of its flat allow calls was, the store holds what it would hold had the
\* flat calls been executed one after another, in any order.
C12_BatchAsSequential ==
    batch.status = "resolved" =>
        \A f \in Orders(Len(calls)) :
            buckets.data = OneByOne(batch.before, calls, f, Len(calls)).data

\* a resolved batch of which two calls took turns inside their end loops
\* and granted different permissions to the same role on the same resource
C12_Witness ==
    /\ batch.status = "resolved"
    /\ batch.interleaved
    /\ \E i, j \in DOMAIN calls :
        /\ i # j
        /\ Range(makeArray(calls[i].args.roles)) \cap Range(makeArray(calls[j].args.roles)) # {}
        /\ Range(makeArray(calls[i].args.resources))
              \cap Range(makeArray(calls[j].args.resources)) # {}
        /\ Range(makeArray(calls[i].args.permissions))
              # Range(makeArray(calls[j].args.permissions))

\* C17: a mutation rejected for malformed arguments commits no storage
\* write: when allow(permissionsArray) is rejected because a record has a
\* wrong-typed roles, resources or permissions, the store is the one the
\* call found.
C17_RejectedWritesNothing ==
    batch.status = "rejected" => buckets = batch.before

\* C13: isAllowed(u, res, []) with the empty permission list is true whenever
\* a role of u (assigned or inherited) holds a grant on res.
C13_EmptyRequestAllowed ==
    \A u \in Users, res \in Resources :
        Granted(buckets, userRoles(buckets, u), res) # {} =>
            isAllowed(buckets, u, res, {})

\* a user whose roles hold a grant on a resource, none of them '*', and who
\* passes the check with the empty list
C13_Witness ==
    \E u \in Users, res \in Resources :
        /\ Granted(buckets, userRoles(buckets, u), res) # {}
        /\ Star \notin Granted(buckets, userRoles(buckets, u), res)
        /\ isAllowed(buckets, u, res, {})

RoleSets == SUBSET Roles

\* the permissions filters asked of whatResources
FilterArgs == {{}, {"view"}, {Star}, {"view", "edit"}}

\* the resources listed in the resources bucket of a role of the closure
Reachable(b, R) == UNION {get(b, BucketResources, r) : r \in Closure(b, R)}

\* C14: whatResources(roles) without a permissions filter returns a map whose
\* keys are exactly the resources listed in the resources bucket of a role
\* of the closure, each mapped to the union of allows_<resource> over the
\* closure.
C14_WhatResourcesMap ==
    \A R \in RoleSets :
        LET result == whatResources(buckets, R, FALSE, {})
        IN  /\ DOMAIN result = Reachable(buckets, R)
            /\ \A res \in DOMAIN result : result[res] = Granted(buckets, R, res)

\* a role reaches a resource only through an ancestor, with a grant on it
C14_Witness ==
    \E r \in Roles, res \in Resources :
        /\ res \in DOMAIN whatResources(buckets, {r}, FALSE, {})
        /\ res \notin get(buckets, BucketResources, r)
        /\ whatResources(buckets, {r}, FALSE, {})[res] # {}

\* C15: whatResources(roles, perms) with a filter returns a resource exactly
\* when it is reachable from the closure and the permissions the closure
\* holds on it have an element in common with perms.
C15_WhatResourcesFilter ==
    \A R \in RoleSets :
        LET reachable == Reachable(buckets, R)
            held == [res \in reachable |-> Granted(buckets, R, res)]
        IN  \A perms \in FilterArgs :
                Range(whatResources(buckets, R, TRUE, perms))
                    = {res \in reachable : held[res] \cap perms # {}}

\* a resource is returned for a filter of which the closure holds one
\* permission but not the other, and another reachable resource is left out
C15_Witness ==
    \E R \in RoleSets, res, other \in Resources :
        /\ res \in Range(whatResources(buckets, R, TRUE, {"view", "edit"}))
        /\ "edit" \notin Granted(buckets, R, res)
        /\ other \in Reachable(buckets, R)
        /\ other \notin Range(whatResources(buckets, R, TRUE, {"view", "edit"}))

\* C16: the result of whatResources(roles, perms) with a filter holds each
\* resource at most once, also when several roles of the closure list it.
C16_FilterResultIsSet ==
    \A R \in RoleSets, perms \in FilterArgs :
        LET result == whatResources(buckets, R, TRUE, perms)
        IN  \A i, j \in 1..Len(result) : result[i] = result[j] => i = j

\* no user id: the userId argument is a function that returned a falsy
\* value, or it is falsy itself and neither req.session.userId nor
\* req.user.id is truthy
NoUserId ==
    \/ mw.userId.type = "function" /\ mw.userId.returns = "undefined"
    \/ /\ mw.userId.type = "undefined" \/ (mw.userId.type = "string" /\ mw.userId.string = "")
       /\ mw.session.type = "undefined"
       /\ mw.user.type = "undefined"

\* C18: the middleware calls next exactly once per request: with an
\* HttpError 401 and no call of isAllowed when there is no user id, with an
\* HttpError 403 when isAllowed resolved false, without an error when it
\* resolved true, with a plain Error when it rejected; and next() without
\* an error is called only when isAllowed resolved true.
C18_OneOutcome ==
    /\ Len(mw.next) <= 1
    /\ mw.pc = "done" =>
        /\ Len(mw.next) = 1
        /\ IF NoUserId
           THEN /\ mw.next[1] = <<HttpError(401, "User not authenticated")>>
                /\ mw.isAllowed = 0
           ELSE /\ mw.isAllowed = 1
                /\ mw.settled = "false" =>
                     mw.next[1] = <<HttpError(403, "Insufficient permissions to access resource")>>
                /\ mw.settled = "true" => mw.next[1] = <<>>
                /\ mw.settled = "rejected" =>
                     /\ Len(mw.next[1]) = 1
                     /\ mw.next[1][1].name = "Error"
    /\ \A i \in 1..Len(mw.next) :
        mw.next[i] = <<>> =>
            /\ mw.settled = "true"
            /\ isAllowed(buckets, mw._userId.string, mw.url, Range(makeArray(mw.actions)))

\* a request without a userId argument whose session user was allowed the
\* action its method names: next() was called without an error
C18_Witness ==
    /\ mw.pc = "done"
    /\ mw.userId = Undefined
    /\ mw.session.type = "string"
    /\ mw.method = "VIEW"
    /\ mw.settled = "true"
    /\ mw.next = << <<>> >>

\* the add-type calls: what AddUserRoles, AddRoleParents, Allow and
\* AllowPatterns can make
AddCalls ==
    {Call("addUserRoles", userId, "", roles, <<>>, FALSE, <<>>) :
        userId \in Users, roles \in UserRoleArgs}
    \cup {Call("addRoleParents", "", role, parents, <<>>, FALSE, <<>>) :
        role \in Roles, parents \in ParentArgs}
    \cup {Call("allow", "", "", roles, resources, TRUE, permissions) :
        roles \in AllowRoleArgs, resources \in ResourceArgs, permissions \in PermissionArgs}
    \cup {Call("allow", "", "", <<"r1">>, <<resource>>, TRUE, permissions) :
        resource \in {ResADot, ResDotDot}, permissions \in {<<"view">>, <<Star>>}}

\* the store after an add-type call
Apply(b, call) ==
    CASE call.op = "addUserRoles" -> addUserRoles(b, call.userId, call.roles)
      [] call.op = "addRoleParents" -> addRoleParents(b, call.role, call.roles)
      [] call.op = "allow" -> allow(b, call.roles, call.resources, call.permissions)

AskedResources == Resources \cup {ResAB}

\* two stores give the same isAllowed, allowedPermissions and whatResources
SameAnswers(b1, b2) ==
    /\ \A u \in Users, res \in AskedResources, perms \in {{"view"}, {"edit"}} :
        isAllowed(b1, u, res, perms) = isAllowed(b2, u, res, perms)
    /\ \A u \in Users :
        allowedPermissions(b1, u, AskedResources) = allowedPermissions(b2, u, AskedResources)
    /\ \A r \in Roles :
        whatResources(b1, {r}, FALSE, {}) = whatResources(b2, {r}, FALSE, {})

\* C19: add-type mutations commute: the last add-type call and any further
\* one, executed in either order on the store the last call found, leave
\* the same buckets, keys and value sets, and the same isAllowed,
\* allowedPermissions and whatResources results (hierarchy kept acyclic).
C19_AddsCommute ==
    last.op \in {"addUserRoles", "addRoleParents", "allow"} =>
        \A call \in AddCalls :
            LET thisOrder == Apply(buckets, call)
                otherOrder == Apply(Apply(prev, call), last)
            IN  Acyclic(thisOrder) =>
                    /\ thisOrder.data = otherOrder.data
                    /\ SameAnswers(thisOrder, otherOrder)

\* C20: addUserRoles is idempotent: calling addUserRoles(u, roles) again
\* right after it completed leaves rolesOfUser(u) and usersOfRole(r), for
\* every role r, as the first call left them.
C20_AddUserRolesIdempotent ==
    last.op = "addUserRoles" =>
        LET again == addUserRoles(buckets, last.userId, last.roles)
        IN  /\ userRoles(again, last.userId) = userRoles(buckets, last.userId)
            /\ \A r \in Roles : roleUsers(again, r) = roleUsers(buckets, r)
            /\ Range(last.roles) \subseteq userRoles(buckets, last.userId)

\* the completed call was itself a repetition: the user already held the
\* roles, two of them, and the role sets are as they were
C20_Witness ==
    /\ last.op = "addUserRoles"
    /\ Len(last.roles) = 2
    /\ Range(last.roles) \subseteq userRoles(prev, last.userId)
    /\ \A r \in Range(last.roles) : last.userId \in roleUsers(prev, r)
    /\ userRoles(buckets, last.userId) = userRoles(prev, last.userId)
    /\ \A r \in Roles : roleUsers(buckets, r) = roleUsers(prev, r)

\* C21: removeRoleParents(child, parents) leaves child the parents it had
\* minus the given ones (so {p2} after addRoleParents(child, [p1, p2]) on a
\* child without parents and removeRoleParents(child, p1));
\* removeRoleParents(child) leaves child without parents; neither changes
\* the parents of another role.
C21_RemoveParents ==
    last.op = "removeRoleParents" =>
        /\ get(buckets, BucketParents, last.role)
             = IF last.explicit
               THEN get(prev, BucketParents, last.role) \ Range(last.roles)
               ELSE {}
        /\ \A r \in Roles \ {last.role} :
             get(buckets, BucketParents, r) = get(prev, BucketParents, r)

\* the child had the two parents r2 and r3, r2 was removed and r3 is left,
\* while another role keeps its parent
C21_Witness ==
    /\ last.op = "removeRoleParents" /\ last.explicit
    /\ last.roles = <<"r2">>
    /\ get(prev, BucketParents, last.role) = {"r2", "r3"}
    /\ get(buckets, BucketParents, last.role) = {"r3"}
    /\ \E r \in Roles \ {last.role} : get(buckets, BucketParents, r) # {}

\* the buckets and key sets asked of union and unions
AskedBuckets ==
    {BucketMeta, BucketParents, BucketResources, BucketRoles, BucketUsers}
        \cup {allowsBucket(res) : res \in AskedResources}
AskedKeySets == (SUBSET Roles) \cup (SUBSET Users) \cup {{"roles", "users"}}

GetUnion(b, bucket, keys) == UNION {get(b, bucket, k) : k \in keys}

\* C22: union(bucket, keys) is the union of get(bucket, k) over the keys,
\* and unions(bucketList, keys) maps exactly the buckets of the list, each
\* to that union (empty for a bucket without data).
C22_UnionIsGetUnion ==
    \A keys \in AskedKeySets :
        /\ \A bucket \in AskedBuckets :
             union(buckets, bucket, keys) = GetUnion(buckets, bucket, keys)
        /\ \A bucketList \in {AskedBuckets, {BucketParents}, {allowsBucket(ResA), BucketUsers}} :
             LET results == unions(buckets, bucketList, keys)
             IN  /\ DOMAIN results = bucketList
                 /\ \A bucket \in bucketList :
                      results[bucket] = GetUnion(buckets, bucket, keys)

\* every grant is accounted for: a role with a grant on a resource lists the
\* resource and is a known role
GrantsListed(b) ==
    \A role \in Roles, res \in Resources :
        get(b, allowsBucket(res), role) # {} =>
            /\ res \in get(b, BucketResources, role)
            /\ role \in get(b, BucketMeta, "roles")

AllDone == calls # <<>> /\ \A i \in DOMAIN calls : calls[i].pc = "done"

\* C23: when allow, removeAllow, removeRole and removeResource calls made
\* together have all completed, whatever their interleaving, a role with a
\* grant on a resource lists that resource and is in the metadata roles set.
C23_ConsistentWhenDone ==
    (/\ AllDone
     /\ \A i \in DOMAIN calls :
            calls[i].call.op \in {"allow", "removeAllow", "removeRole", "removeResource"})
        => GrantsListed(buckets)

\* removeAllow is the only call in progress, somewhere between its start and
\* its end
Revoking ==
    /\ Len(calls) = 1
    /\ calls[1].call.op = "removeAllow"

\* the store b differs from the store b0 in the allows_ buckets and the
\* resources bucket only
OnlyGrantsDiffer(b, b0) ==
    \A bucket \in {BucketMeta, BucketUsers, BucketRoles, BucketParents} :
        BucketOf(b, bucket) = BucketOf(b0, bucket)

\* C24: in every state between the start and the end of removeAllow the
\* store is consistent but for resources still listed for the role without
\* a grant left (a role with a grant lists the resource, and nothing but
\* grants and listings has changed), and isAllowed and areAnyRolesAllowed
\* answer true only where they did before the revoke started.
C24_RevokeNeverEscalates ==
    Revoking =>
        /\ GrantsListed(buckets)
        /\ OnlyGrantsDiffer(buckets, prev)
        /\ \A res \in AskedResources, perms \in PermissionSets :
            /\ \A u \in Users :
                isAllowed(buckets, u, res, perms) => isAllowed(prev, u, res, perms)
            /\ \A R \in RoleSets :
                areAnyRolesAllowed(buckets, R, res, perms)
                    => areAnyRolesAllowed(prev, R, res, perms)

\* the first batch has run, not the second: a is still listed for r1, which
\* has no grant left on it, and u1 has lost view on a
C24_Witness ==
    /\ Revoking
    /\ calls[1].pc \in {"second", "end2"}
    /\ ResA \in get(buckets, BucketResources, "r1")
    /\ get(buckets, allowsBucket(ResA), "r1") = {}
    /\ isAllowed(prev, "u1", ResA, {"view"})
    /\ ~isAllowed(buckets, "u1", ResA, {"view"})

\* C25: while addUserRoles(u, roles) or removeUserRoles(u, roles) is in
\* progress, at every storage-call boundary each role r of roles is in
\* users[u] exactly when u is in roles[r].
C25_TwinWritesTogether ==
    (/\ Len(calls) = 1
     /\ calls[1].call.op \in {"addUserRoles", "removeUserRoles"})
        => \A i \in DOMAIN calls[1].call.roles :
              LET u == calls[1].call.userId
                  r == calls[1].call.roles[i]
              IN  r \in get(buckets, BucketUsers, u) <=> u \in get(buckets, BucketRoles, r)

\* C26: after addUserRoles(u, roles) every role of roles is in the metadata
\* set of known roles (bucket meta, key "roles").
C26_AssignRegistersRoles ==
    last.op = "addUserRoles" =>
        Range(last.roles) \subseteq get(buckets, BucketMeta, "roles")

\* C26 as amended: after addUserRoles(u, roles) the user u is in the
\* metadata set of known users (bucket meta, key "users") and the metadata
\* set of known roles is what it was before the call.
C26_AssignRegistersUser ==
    last.op = "addUserRoles" =>
        /\ last.userId \in get(buckets, BucketMeta, "users")
        /\ get(buckets, BucketMeta, "roles") = get(prev, BucketMeta, "roles")

\* a user new to the metadata is given a role the metadata does not know
C26_Witness ==
    /\ last.op = "addUserRoles"
    /\ last.userId \notin get(prev, BucketMeta, "users")
    /\ last.userId \in get(buckets, BucketMeta, "users")
    /\ \E i \in DOMAIN last.roles :
        /\ last.userId \in get(buckets, BucketRoles, last.roles[i])
        /\ last.roles[i] \notin get(buckets, BucketMeta, "roles")

KnownRoles(b) == get(b, BucketMeta, "roles")

\* C27: after addRoleParents(child, ...) child is in the metadata set
\* "roles", and so is every role of allow(roles, ...); a role in the set
\* stays in it across every operation but removeRole of that role; after
\* removeRole(r), r is not in the set.
C27_KnownRoles ==
    /\ last.op = "addRoleParents" => last.role \in KnownRoles(buckets)
    /\ last.op = "allow" => Range(last.roles) \subseteq KnownRoles(buckets)
    /\ \A r \in KnownRoles(prev) :
        ~(last.op = "removeRole" /\ last.role = r) => r \in KnownRoles(buckets)
    /\ last.op = "removeRole" => last.role \notin KnownRoles(buckets)

\* removeRole took a known role out of the set and left another in it
C27_Witness ==
    /\ last.op = "removeRole"
    /\ last.role \in KnownRoles(prev)
    /\ last.role \notin KnownRoles(buckets)
    /\ \E r \in KnownRoles(prev) : r # last.role /\ r \in KnownRoles(buckets)

\* the array stored at a key, <<>> for none
Stored(b, bucket, key) ==
    IF bucket \in DOMAIN b.data /\ key \in DOMAIN b.data[bucket]
    THEN b.data[bucket][key]
    ELSE <<>>

NoDuplicate(array) ==
    \A i, j \in DOMAIN array : array[i] = array[j] => i = j

\* C28: no value of the in-memory store holds the same string twice,
\* whatever the arguments were (arrays repeating an element, keys not yet
\* there), and adding members a value already holds leaves the value, as a
\* set, what it was.
C28_ValuesAreSets ==
    /\ \A bucket \in ArrayBuckets : NoDuplicate(Stored(buckets, bucket, ArrayKey))
    /\ (/\ last.op = "add"
        /\ Range(last.values) \subseteq Range(Stored(prev, last.bucket, ArrayKey)))
            => Range(Stored(buckets, last.bucket, ArrayKey))
                 = Range(Stored(prev, last.bucket, ArrayKey))

\* the second part of C28 alone, and no duplicate at a key that was there
C28_ExistingKey ==
    /\ (/\ last.op = "add"
        /\ Range(last.values) \subseteq Range(Stored(prev, last.bucket, ArrayKey)))
            => Range(Stored(buckets, last.bucket, ArrayKey))
                 = Range(Stored(prev, last.bucket, ArrayKey))
    /\ (/\ last.op = "add"
        /\ last.bucket \in DOMAIN prev.data
        /\ ArrayKey \in DOMAIN prev.data[last.bucket])
            => NoDuplicate(Stored(buckets, last.bucket, ArrayKey))

\* a query is in progress on a hierarchy without cycles
AcyclicQuery == calls # <<>> /\ Acyclic(buckets)

QueryReturned == calls # <<>> /\ calls[1].pc = "returned"

\* C29: on a hierarchy without cycles isAllowed, areAnyRolesAllowed,
\* allowedPermissions (naive and optimized) and whatResources, as the
\* recursive functions under them, eventually return, provided every
\* storage call returns.
C29_QueriesReturn == AcyclicQuery ~> QueryReturned

\* a query has returned from three invocations deep on an acyclic hierarchy
C29_Witness ==
    /\ QueryReturned
    /\ Acyclic(buckets)
    /\ calls[1].call.query = "whatResources"
    /\ calls[1].deepest = 2
    /\ calls[1].fn = "_resourcePermissions"

\* some role reachable from R lies on a cycle of parent edges
CycleReachable(b, R) ==
    \E r \in Closure(b, R) : r \in Closure(b, ParentsOf(b, {r}))

\* the query in progress is one of _allRoles(R), whatResources(R) and the
\* permission union _resourcePermissions(R, resource)
AsksRoles(R) ==
    /\ calls[1].call.query \in {"_allRoles", "whatResources", "_resourcePermissions"}
    /\ calls[1].call.roles = R

\* C30: when a cycle of parent edges is reachable from the roles R,
\* _allRoles(R) never returns, and neither do whatResources(R), the
\* recursive permission union for R and optimizedAllowedPermissions for a
\* user holding a role of R.
C30_CycleNeverReturns ==
    calls # <<>> =>
        \A R \in RoleSets :
            CycleReachable(buckets, R) =>
                /\ AsksRoles(R) => calls[1].pc # "returned"
                /\ (/\ calls[1].call.query = "optimizedAllowedPermissions"
                    /\ userRoles(buckets, calls[1].call.userId) \cap R # {})
                        => calls[1].pc # "returned"

\* C30 as amended: when a cycle of parent edges is reachable from the roles
\* R, _allRoles(R) never returns, and neither do whatResources(R), the
\* recursive permission union for R and optimizedAllowedPermissions for a
\* user whose roles are R.
C30_CycleFromRolesNeverReturns ==
    calls # <<>> =>
        \A R \in RoleSets :
            CycleReachable(buckets, R) =>
                /\ AsksRoles(R) => calls[1].pc # "returned"
                /\ (/\ calls[1].call.query = "optimizedAllowedPermissions"
                    /\ userRoles(buckets, calls[1].call.userId) = R)
                        => calls[1].pc # "returned"

\* _allRoles is called again with roles it was called with before
C30_Witness ==
    /\ calls # <<>>
    /\ calls[1].pc = "call"
    /\ calls[1].fn = "_allRoles"
    /\ calls[1].call.query = "optimizedAllowedPermissions"
    /\ CycleReachable(buckets, userRoles(buckets, calls[1].call.userId))
    /\ \E i \in DOMAIN calls[1].stack : calls[1].stack[i] = calls[1].roles

\* isAllowed is in progress for a user from whose roles a cycle of parent
\* edges is reachable
CyclicIsAllowed ==
    /\ calls # <<>>
    /\ calls[1].call.query = "isAllowed"
    /\ CycleReachable(buckets, userRoles(buckets, calls[1].call.userId))

\* '*' or every asked permission is granted to a role of the user or to an
\* ancestor of one
AskedIsGranted ==
    LET granted == Granted(buckets, userRoles(buckets, calls[1].call.userId),
                           calls[1].call.resources[1])
    IN  Star \in granted \/ calls[1].call.permissions \subseteq granted

\* C31: when a cycle of parent edges is reachable from the roles of the
\* user, isAllowed never returns false: when it returns it returns true and
\* '*' or all the asked permissions were found on the way up, and when they
\* are there to be found it does return.
C31_CycleNeverFalse ==
    /\ [](CyclicIsAllowed /\ calls[1].pc = "returned"
            => calls[1].allowed /\ AskedIsGranted)
    /\ ((CyclicIsAllowed /\ AskedIsGranted) ~> QueryReturned)

\* isAllowed returned true from the third level of a cycle
C31_Witness ==
    /\ CyclicIsAllowed
    /\ calls[1].pc = "returned"
    /\ calls[1].allowed
    /\ calls[1].deepest = 2

\* a mutation has begun and none of its queued operations has run: it is
\* queueing, about to call end, or rejected
BeforeEnd ==
    /\ calls # <<>>
    /\ "pending" \in DOMAIN calls[1]
    /\ calls[1].ran = 0
    /\ calls[1].pc \in {"queue", "end", "rejected"}

\* C32: between begin and the start of end the store is what it was before
\* begin, so every get and union returns what it returned then, and a
\* mutation that fails before it reaches end has committed nothing.
C32_QueueingWritesNothing == BeforeEnd => buckets = prev

\* a call of add threw after two operations were queued, on a store the
\* queued operations would change
C32_Witness ==
    /\ BeforeEnd
    /\ calls[1].pc = "rejected"
    /\ Len(calls[1].transaction) >= 2
    /\ end(buckets, calls[1].transaction) # buckets
    /\ buckets = prev

\* the store after the batches of the call applied to b one operation at a
\* time, in the order queued
InQueueOrder(b, call) ==
    IF call.op = "removeAllow"
    THEN removePermissions(b, call.role, call.resources, call.explicit, call.permissions)
    ELSE end(b, Queued(b, call))

\* the number of operations the call queues on b, both batches counted
QueueLength(b, call) ==
    IF call.op = "removeAllow"
    THEN LET queued == removePermissionsTransaction(call.role, call.resources,
                                                    call.explicit, call.permissions)
         IN  Len(queued)
             + Len(removePermissionsTransaction2(end(b, queued), call.role, call.resources))
    ELSE Len(Queued(b, call))

\* C33: for every batch the engine builds, when end has returned every
\* queued operation has been applied and the store is the one the
\* operations give applied one at a time in queue order, also when end
\* starts all of them at once.
C33_BatchOrderFree ==
    (calls # <<>> /\ calls[1].pc = "done") =>
        /\ calls[1].transaction = <<>>
        /\ calls[1].ran = QueueLength(prev, calls[1].call)
        /\ buckets = InQueueOrder(prev, calls[1].call)

\* removeRole is done, its last queued operation having been the first to
\* take effect
C33_Witness ==
    /\ calls # <<>>
    /\ calls[1].pc = "done"
    /\ calls[1].call.op = "removeRole"
    /\ calls[1].ran >= 4
    /\ buckets # prev

\* C34: with the public mutations run one at a time to completion, in every
\* reachable state a resource is in resources[role] exactly when
\* allows_<resource>[role] is not empty, and then role is in the metadata
\* set "roles".
C34_ListingMatchesGrants ==
    \A role \in Roles, res \in Resources :
        /\ res \in get(buckets, BucketResources, role)
             <=> get(buckets, allowsBucket(res), role) # {}
        /\ res \in get(buckets, BucketResources, role)
             => role \in KnownRoles(buckets)

\* a revoke of given permissions has emptied the grant of a role on one
\* resource, which is no longer listed, and left its grant on another
C34_Witness ==
    /\ last.op = "removeAllow"
    /\ last.explicit
    /\ \E res \in Resources :
        /\ res \in get(prev, BucketResources, last.role)
        /\ res \notin get(buckets, BucketResources, last.role)
        /\ get(buckets, allowsBucket(res), last.role) = {}
    /\ \E res \in Resources :
        /\ res \in get(buckets, BucketResources, last.role)
        /\ get(buckets, allowsBucket(res), last.role) # {}

\* the queries about the resource res answer the same on the stores b1, b2
SameAbout(b1, b2, res) ==
    /\ \A u \in Users, perms \in {{"view"}, {"edit"}, {"view", "edit"}} :
        isAllowed(b1, u, res, perms) = isAllowed(b2, u, res, perms)
    /\ \A R \in RoleSets, perms \in {{"view"}, {"edit"}} :
        areAnyRolesAllowed(b1, R, res, perms) = areAnyRolesAllowed(b2, R, res, perms)
    /\ \A u \in Users :
        allowedPermissions(b1, u, {res}) = allowedPermissions(b2, u, {res})

\* C35: allow(roles, resources, perms) and removeAllow(role, resources,
\* perms) change the answers of isAllowed, areAnyRolesAllowed and
\* allowedPermissions for the resources of the given list only: for every
\* other resource name, '.' and other pattern characters included, and
\* every user the answers are what they were.
C35_GrantsIsolated ==
    last.op \in {"allow", "removeAllow"} =>
        \A res \in AskedResources \ Range(last.resources) :
            SameAbout(prev, buckets, res)

\* C36: for every role set R, resource and permission p, when
\* areAnyRolesAllowed(R, resource, [p]) is true the resource is in
\* whatResources(R, [p]), also when p is held through the wildcard '*'.
C36_WhatResourcesAgrees ==
    \A R \in RoleSets, res \in Resources, p \in {"view", "edit"} :
        areAnyRolesAllowed(buckets, R, res, {p})
            => res \in Range(whatResources(buckets, R, TRUE, {p}))

\* C36 but for the wildcard and for resources answered from the bucket of
\* another: a permission found by name in the bucket of the resource itself
C36_NamedPermissionAgrees ==
    \A R \in RoleSets, res \in Resources, p \in {"view", "edit"} :
        (/\ areAnyRolesAllowed(buckets, R, res, {p})
         /\ R # {}
         /\ p \in Granted(buckets, R, res))
            => res \in Range(whatResources(buckets, R, TRUE, {p}))

\* the users that hold the role r or a descendant of it
UsersUnder(b, r) == {u \in Users : r \in Closure(b, userRoles(b, u))}

\* C37: removeRole(r) changes no entry of the users bucket and the parents
\* of no other role, so that allow(r, resource, p) called after it makes
\* every user that held r or a descendant of r allowed p on the resource,
\* no role being reassigned.
C37_RemoveRoleKeepsEdges ==
    /\ last.op = "removeRole" =>
        /\ BucketOf(buckets, BucketUsers) = BucketOf(prev, BucketUsers)
        /\ \A r \in Roles \ {last.role} :
            get(buckets, BucketParents, r) = get(prev, BucketParents, r)
    /\ \A r \in Roles, res \in Resources :
        LET removed == removeRole(buckets, r)
            granted == allow(removed, <<r>>, <<res>>, <<"view">>)
        IN  \A u \in UsersUnder(buckets, r) : isAllowed(granted, u, res, {"view"})

\* removeRole has removed a role held by a user and parent of another role;
\* the user is not allowed, and is again once the role is granted
C37_Witness ==
    /\ last.op = "removeRole"
    /\ \E u \in Users : last.role \in userRoles(buckets, u)
    /\ \E r \in Roles : last.role \in get(buckets, BucketParents, r)
    /\ \E u \in UsersUnder(prev, last.role) :
        /\ ~isAllowed(buckets, u, ResA, {"view"})
        /\ isAllowed(allow(buckets, <<last.role>>, <<ResA>>, <<"view">>), u, ResA, {"view"})

\* every answer the queries give on the store b1 they give on b2: what is
\* allowed stays allowed, and no permission leaves a result
NothingRevoked(b1, b2) ==
    /\ \A res \in AskedResources, perms \in {{"view"}, {"edit"}, {"view", "edit"}} :
        /\ \A u \in Users :
            isAllowed(b1, u, res, perms) => isAllowed(b2, u, res, perms)
        /\ \A R \in RoleSets :
            areAnyRolesAllowed(b1, R, res, perms) => areAnyRolesAllowed(b2, R, res, perms)
    /\ \A u \in Users, res \in AskedResources :
        allowedPermissions(b1, u, {res})[res] \subseteq allowedPermissions(b2, u, {res})[res]
    /\ \A R \in RoleSets :
        LET before == whatResources(b1, R, FALSE, {})
            after == whatResources(b2, R, FALSE, {})
        IN  \A res \in DOMAIN before :
                res \in DOMAIN after /\ before[res] \subseteq after[res]

\* C38: on acyclic hierarchies allow, addUserRoles and addRoleParents never
\* turn an isAllowed or areAnyRolesAllowed answer from true to false and
\* never take a permission out of an allowedPermissions or whatResources
\* result.
C38_AddsNeverRevoke ==
    last.op \in {"allow", "addUserRoles", "addRoleParents"} => NothingRevoked(prev, buckets)

====
